---------------------------- MODULE Spec2Model ----------------------------
(***************************************************************************)
(* Verification model of the AI-orchestration slice of berserk-coach:      *)
(*   - AICoreService.parseResponse        (intent extraction)              *)
(*   - MemoryEngine                       (conversation log, memory items) *)
(*   - AICoreService                      (conversation id, context window)*)
(*   - ActionInterpreter                  (intents to app actions)         *)
(*   - PersonalityEngine                  (persona store)                  *)
(*                                                                         *)
(* Texts are sequences of tokens.  Every token stands for one fixed piece  *)
(* of text (TokLen below gives its length in characters); the alphabet is  *)
(* chosen so that a tag or a word can only arise from the token sequence   *)
(* that spells it, which makes matching on tokens the same as matching on  *)
(* characters.                                                             *)
(***************************************************************************)
EXTENDS Integers, Sequences, FiniteSets, TLC

VARIABLES
  response,    \* the raw model output handed to parseResponse
  xpc,         \* "input" | "parsed" | "reparsed"
  parsed,      \* parseResponse(response)
  reparsed,    \* parseResponse(parsed.text)
  storage,         \* AsyncStorage: key -> stored value
  conversationId,  \* AICoreService.conversationId (NoConv = null)
  contextWindow,   \* AICoreService.contextWindow
  nextMsg,         \* number of the next message id to be generated
  nextConv,        \* number of the next conversation id to be generated
  last,            \* the operation completed last, with its result
  personas,        \* PersonalityEngine.personas: a Map, in insertion order
  customLoaded,    \* has the constructor's loadCustomPersonas completed?
  nextPersona,     \* number of the next persona id to be generated
  calls,           \* the memoryEngine.saveMessage calls in flight
  currentProfile,  \* UserProfileEngine.currentProfile (NoProfile = null)
  nextGoal,        \* number of the next goal id to be generated
  nextEntry,       \* number of the next journal entry id to be generated
  hookGoals        \* useStrategicData: the `goals` state of the latest render

xvars == <<response, xpc, parsed, reparsed>>
mvars == <<storage, conversationId, contextWindow, nextMsg, nextConv, last>>
pvars == <<personas, customLoaded, nextPersona>>
cvars == <<calls>>
svars == <<currentProfile, nextGoal, nextEntry, hookGoals>>
vars == <<xvars, mvars, pvars, cvars, svars>>

\* private currentProfile: UserProfile | null = null
NoProfile == [null |-> TRUE]

\* the services that a specification does not exercise, as constructed
ProfileIdle == currentProfile = NoProfile
GoalsIdle == nextGoal = 1
JournalIdle == nextEntry = 1
HookIdle == hookGoals = <<>>
ServicesIdle == ProfileIdle /\ GoalsIdle /\ JournalIdle /\ HookIdle

--------------------------------------------------------------------------
(* Tokens *)

LT == "<sys"          \* first half of the opening tag
RT == "tem>"          \* second half: LT followed by RT spells <system>
CL == "</system>"     \* the closing tag
SP == " "             \* the only white-space token
COLON == ":"
K1 == "\"title\""     \* JSON string literals, quotes included
V1 == "\"Write report\""
K2 == "\"priority\""
V2 == "\"urgent\""
StrLits == {K1, V1, K2, V2}

--------------------------------------------------------------------------
(* String helpers (JavaScript String methods on token sequences) *)

Min(a, b) == IF a < b THEN a ELSE b
Max(a, b) == IF a > b THEN a ELSE b

\* s.slice(from - 1) for 1-based from: the suffix starting at from
Drop(s, n) == SubSeq(s, n + 1, Len(s))
Take(s, n) == SubSeq(s, 1, n)

RECURSIVE TrimStart(_)
TrimStart(s) == IF s # <<>> /\ Head(s) = SP THEN TrimStart(Tail(s)) ELSE s

RECURSIVE TrimEnd(_)
TrimEnd(s) ==
  IF s # <<>> /\ s[Len(s)] = SP THEN TrimEnd(Take(s, Len(s) - 1)) ELSE s

\* String.prototype.trim
Trim(s) == TrimEnd(TrimStart(s))

\* does pat occur in s at position i (1-based)?
OccursAt(s, pat, i) ==
  /\ i >= 1
  /\ i + Len(pat) - 1 <= Len(s)
  /\ SubSeq(s, i, i + Len(pat) - 1) = pat

\* String.prototype.indexOf, 1-based, 0 when absent
IndexOf(s, pat) ==
  LET hits == {i \in 1..(Len(s) + 1) : OccursAt(s, pat, i)}
  IN  IF hits = {} THEN 0 ELSE CHOOSE i \in hits : \A j \in hits : i <= j

\* String.prototype.replace(pattern: string, ''): only the FIRST occurrence
\* of the pattern string is removed
ReplaceFirst(s, pat) ==
  LET i == IndexOf(s, pat)
  IN  IF i = 0 THEN s ELSE Take(s, i - 1) \o Drop(s, i + Len(pat) - 1)

\* String.prototype.split(':') : every colon separates two pieces
RECURSIVE SplitAll(_, _)
SplitAll(s, cur) ==
  IF s = <<>> THEN <<cur>>
  ELSE IF Head(s) = COLON THEN <<cur>> \o SplitAll(Tail(s), <<>>)
  ELSE SplitAll(Tail(s), Append(cur, Head(s)))

\* String.prototype.split(':', limit): split at EVERY colon, then keep the
\* first `limit` pieces (the rest of the text is dropped)
JsSplit(s, limit) ==
  LET all == SplitAll(s, <<>>) IN Take(all, Min(limit, Len(all)))


--------------------------------------------------------------------------
(* PersonalityEngine: the built-in personas.  A profile is reduced to its  *)
(* id, its isCustom flag and its name, which stands for the other fields.  *)

BuiltInIds == {"strategist", "commander", "architect", "catalyst", "tactical"}

Persona(id, name, isCustom) == [id |-> id, name |-> name, isCustom |-> isCustom]

\* loadBuiltInPersonas: the Map after the five set() calls
BuiltInPersonas == <<
  Persona("strategist", "strategist", FALSE),
  Persona("commander", "commander", FALSE),
  Persona("architect", "architect", FALSE),
  Persona("catalyst", "catalyst", FALSE),
  Persona("tactical", "tactical", FALSE) >>

--------------------------------------------------------------------------
(* JSON.parse on a token sequence.  Values are strings and objects; white  *)
(* space between tokens is insignificant; anything else is a SyntaxError.  *)

JStr(x) == [t |-> "str", s |-> x, m |-> <<>>]
JObj(f) == [t |-> "obj", s |-> "", m |-> f]
EmptyObject == JObj(<<>>)
JFail == [ok |-> FALSE, val |-> EmptyObject, next |-> 0]

\* obj[k] = v on a JavaScript object: a later duplicate key overwrites
PutKey(f, k, v) == [z \in (DOMAIN f) \cup {k} |-> IF z = k THEN v ELSE f[z]]

RemoveSpaces(s) == SelectSeq(s, LAMBDA c : c # SP)

RECURSIVE JsonValue(_, _)
RECURSIVE JsonMembers(_, _, _)
JsonValue(t, i) ==
  IF i > Len(t) THEN JFail
  ELSE IF t[i] \in StrLits THEN [ok |-> TRUE, val |-> JStr(t[i]), next |-> i + 1]
  ELSE IF t[i] = "{" THEN
    IF i + 1 <= Len(t) /\ t[i + 1] = "}"
      THEN [ok |-> TRUE, val |-> EmptyObject, next |-> i + 2]
      ELSE JsonMembers(t, i + 1, <<>>)
  ELSE JFail

\* members: string ":" value, then "," and more members, or "}"
JsonMembers(t, i, acc) ==
  IF i + 1 > Len(t) \/ t[i] \notin StrLits \/ t[i + 1] # COLON THEN JFail
  ELSE LET v == JsonValue(t, i + 2) IN
    IF ~v.ok \/ v.next > Len(t) THEN JFail
    ELSE LET acc2 == PutKey(acc, t[i], v.val) IN
      IF t[v.next] = "}" THEN [ok |-> TRUE, val |-> JObj(acc2), next |-> v.next + 1]
      ELSE IF t[v.next] = "," THEN JsonMembers(t, v.next + 1, acc2)
      ELSE JFail

\* JSON.parse(text): ok = FALSE models the SyntaxError it throws
JsonParse(text) ==
  LET t == RemoveSpaces(text)
      v == JsonValue(t, 1)
  IN  IF v.ok /\ v.next = Len(t) + 1
        THEN [ok |-> TRUE, val |-> v.val]
        ELSE [ok |-> FALSE, val |-> EmptyObject]

--------------------------------------------------------------------------
(* AICoreService.parseResponse *)

OpenTag == <<LT, RT>>

\* the positions of closing tags at or after i
ClosersFrom(s, i) == {q \in i..Len(s) : s[q] = CL}

\* systemIntentRegex = /<system>(.*?)<\/system>/gs, driven by exec(): the
\* successive non-overlapping matches [start, end] in s, scanning from `from`.
\* The non-greedy body ends at the first closing tag after the opening tag.
RECURSIVE RegexMatches(_, _)
RegexMatches(s, from) ==
  LET opens == {p \in from..Len(s) :
                  OccursAt(s, OpenTag, p) /\ ClosersFrom(s, p + 2) # {}}
  IN  IF opens = {} THEN <<>>
      ELSE LET p == CHOOSE x \in opens : \A y \in opens : x <= y
               q == CHOOSE x \in ClosersFrom(s, p + 2) :
                      \A y \in ClosersFrom(s, p + 2) : x <= y
           IN  <<[start |-> p, end |-> q]>> \o RegexMatches(s, q + 1)

MatchText(s, mt) == SubSeq(s, mt.start, mt.end)           \* match[0]
MatchGroup(s, mt) == SubSeq(s, mt.start + 2, mt.end - 1)  \* match[1]

\* the body of the try block for one match: ok = FALSE when JSON.parse throws
ParseIntent(group) ==
  LET intentText == Trim(group)
      parts == JsSplit(intentText, 2)
      action == parts[1]
      hasData == Len(parts) >= 2 /\ parts[2] # <<>>     \* dataStr is truthy
      data == IF hasData THEN JsonParse(Trim(parts[2]))
                         ELSE [ok |-> TRUE, val |-> EmptyObject]
  IN  [ok |-> data.ok, intent |-> [action |-> Trim(action), data |-> data.val]]

\* the while loop over the matches of the ORIGINAL response; cleanText is
\* edited by string replacement
RECURSIVE ParseLoop(_, _, _, _)
ParseLoop(s, ms, intents, cleanText) ==
  IF ms = <<>> THEN [text |-> Trim(cleanText), intents |-> intents]
  ELSE LET r == ParseIntent(MatchGroup(s, Head(ms))) IN
    IF r.ok
      THEN ParseLoop(s, Tail(ms), Append(intents, r.intent),
                     ReplaceFirst(cleanText, MatchText(s, Head(ms))))
      ELSE ParseLoop(s, Tail(ms), intents, cleanText)

parseResponse(s) == ParseLoop(s, RegexMatches(s, 1), <<>>, s)

--------------------------------------------------------------------------
(* Responses the extraction is exercised on: up to MaxSegs segments, each  *)
(* a piece of plain text, a piece of a tag, or a whole tagged occurrence.  *)

MaxSegs == 4

Occurrence(inner) == OpenTag \o inner \o <<CL>>

Inners == {
  <<"a">>,                                              \* no payload
  <<"a", COLON, SP, "{", "}">>,                         \* empty object
  <<"a", COLON, SP, "{", K1, COLON, SP, V1, ",", SP, K2, COLON, SP, V2, "}">>,
  <<"a", COLON, SP, "{", K1, "}">> }                    \* malformed payload

Segments ==
  {Occurrence(i) : i \in Inners}
    \cup {<<"x">>, <<SP>>, <<LT>>, <<RT>>, <<CL>>, <<LT, RT, "a", COLON>>}

RECURSIVE Concat(_)
Concat(ss) == IF ss = <<>> THEN <<>> ELSE Head(ss) \o Concat(Tail(ss))

Responses ==
  {Concat(ss) : ss \in UNION {[1..n -> Segments] : n \in 0..MaxSegs}}

NoResult == [text |-> <<>>, intents |-> <<>>]

InitExtract ==
  /\ response \in Responses
  /\ xpc = "input"
  /\ parsed = NoResult
  /\ reparsed = NoResult
  /\ storage = <<>>
  /\ conversationId = 0
  /\ contextWindow = <<>>
  /\ nextMsg = 1
  /\ nextConv = 1
  /\ last = [op |-> "none"]
  /\ personas = BuiltInPersonas
  /\ customLoaded = TRUE
  /\ nextPersona = 1
  /\ calls = <<>>
  /\ ServicesIdle

\* const { text, intents } = this.parseResponse(response)
ParseResponse ==
  /\ xpc = "input"
  /\ parsed' = parseResponse(response)
  /\ xpc' = "parsed"
  /\ UNCHANGED <<response, reparsed, mvars, pvars, cvars, svars>>

\* extract applied to the visible text of the first pass
ParseVisibleText ==
  /\ xpc = "parsed"
  /\ reparsed' = parseResponse(parsed.text)
  /\ xpc' = "reparsed"
  /\ UNCHANGED <<response, parsed, mvars, pvars, cvars, svars>>

NextExtract == ParseResponse \/ ParseVisibleText

SpecExtract == InitExtract /\ [][NextExtract]_vars

--------------------------------------------------------------------------
(* Claims about intent extraction, checked under SpecExtract *)

\* what the extractor is specified to read out of one occurrence: the text
\* is cut at its FIRST colon, the action is the part before it and the
\* payload is everything after it
FirstColonIntent(group) ==
  LET txt == Trim(group)
      i == IndexOf(txt, <<COLON>>)
      payload == IF i = 0 THEN <<>> ELSE Trim(Drop(txt, i))
      data == IF payload = <<>> THEN [ok |-> TRUE, val |-> EmptyObject]
                                ELSE JsonParse(payload)
  IN  [ok |-> data.ok /\ data.val.t = "obj",
       intent |-> [action |-> Trim(IF i = 0 THEN txt ELSE Take(txt, i - 1)),
                   data |-> data.val]]

InSeq(x, q) == \E k \in 1..Len(q) : q[k] = x

\* C1: every occurrence `actionName: {json object}` (or one with no payload)
\* yields an intent with that action and the fully parsed object.
C1_FirstColonSplit ==
  xpc # "input" =>
    \A k \in 1..Len(RegexMatches(response, 1)) :
      LET mt == RegexMatches(response, 1)[k]
          want == FirstColonIntent(MatchGroup(response, mt))
      IN  want.ok => InSeq(want.intent, parsed.intents)

\* C2: a second extraction over the visible text of the first finds no intent.
C2_ExtractIdempotent ==
  xpc = "reparsed" => reparsed.intents = <<>>

\* the response with the given matches (in order of appearance) cut out
RECURSIVE RemoveSpans(_, _, _)
RemoveSpans(s, ms, from) ==
  IF ms = <<>> THEN Drop(s, from - 1)
  ELSE SubSeq(s, from, Head(ms).start - 1)
         \o RemoveSpans(s, Tail(ms), Head(ms).end + 1)

ParsedMatches(s) ==
  SelectSeq(RegexMatches(s, 1), LAMBDA mt : ParseIntent(MatchGroup(s, mt)).ok)
FailedMatches(s) ==
  SelectSeq(RegexMatches(s, 1), LAMBDA mt : ~ParseIntent(MatchGroup(s, mt)).ok)

\* C3: an occurrence whose payload fails to parse is skipped alone: the other
\* occurrences yield their intents in order of appearance, every parsed
\* occurrence is removed from the visible text and every failed occurrence
\* is still in it.
C3_PartialRecovery ==
  xpc # "input" =>
    /\ parsed.intents =
         [k \in 1..Len(ParsedMatches(response)) |->
            ParseIntent(MatchGroup(response, ParsedMatches(response)[k])).intent]
    /\ parsed.text = Trim(RemoveSpans(response, ParsedMatches(response), 1))
    /\ \A k \in 1..Len(FailedMatches(response)) :
         IndexOf(parsed.text, MatchText(response, FailedMatches(response)[k])) # 0

--------------------------------------------------------------------------
(* Message texts: length in characters and keyword extraction *)

\* the number of characters each token stands for
\* (the last six are the fixed texts the journal service puts around an
\* entry in its requests, part_008 lines 320-328, 259-262 and 296; the words
\* of each are kept as one piece, and "entryHead" takes the date in its
\* ten-character form)
TokLen(tok) ==
  CASE tok \in {SP, COLON, "{", "}", ",", "a", "x"} -> 1
    [] tok \in {LT, RT, "plan", "with"} -> 4
    [] tok = "the" -> 3
    [] tok = "project" -> 7
    [] tok = "deadline" -> 8
    [] tok = "Deadline," -> 9
    [] tok = CL -> 9
    [] tok = K1 -> 7
    [] tok = V1 -> 14
    [] tok = K2 -> 10
    [] tok = V2 -> 8
    [] tok = "- " -> 2
    [] tok = "\n\n" -> 2
    [] tok = "welcome" -> 30
    [] tok = "analysisLead" -> 213
    [] tok = "analysisTail" -> 92
    [] tok = "insightsLead" -> 127
    [] tok = "reflectionLead" -> 166
    [] tok = "entryHead" -> 40
    [] tok = "entrySeparator" -> 7

\* String.length
RECURSIVE StrLen(_)
StrLen(s) == IF s = <<>> THEN 0 ELSE TokLen(Head(s)) + StrLen(Tail(s))

\* what .toLowerCase().replace(/[^\wа-яё\s]/gi, '') leaves of
\* a token: its word characters in lower case, as pieces, with SP for white
\* space.  The pieces are prefix-free, so two words are the same string
\* exactly when they are the same sequence of pieces.
Pieces(tok) ==
  CASE tok \in {SP, "\n\n", "entrySeparator"} -> <<SP>>
    [] tok \in {COLON, "{", "}", ","} -> <<>>
    [] tok = "- " -> <<SP>>
    [] tok = LT -> <<"sys">>
    [] tok = RT -> <<"tem">>
    [] tok = CL -> <<"sys", "tem">>
    [] tok = "Deadline," -> <<"deadline">>
    [] tok = K1 -> <<"title">>
    [] tok = V1 -> <<"write", SP, "report">>
    [] tok = K2 -> <<"priority">>
    [] tok = V2 -> <<"urgent">>
    [] tok \in {"analysisLead", "insightsLead", "reflectionLead", "entryHead"}
         -> <<tok, SP>>
    [] tok = "analysisTail" -> <<SP, tok>>
    [] OTHER -> <<tok>>

PieceLen(pc) ==
  CASE pc \in {"a", "x"} -> 1
    [] pc \in {"sys", "tem", "the"} -> 3
    [] pc \in {"plan", "with"} -> 4
    [] pc \in {"title", "write"} -> 5
    [] pc \in {"report", "urgent"} -> 6
    [] pc \in {"project", "welcome"} -> 7
    [] pc \in {"deadline", "priority"} -> 8
    [] pc \in {"entryHead", "reflectionLead"} -> 10
    [] pc \in {"analysisLead", "analysisTail", "insightsLead"} -> 13

RECURSIVE WordLen(_)
WordLen(w) == IF w = <<>> THEN 0 ELSE PieceLen(Head(w)) + WordLen(Tail(w))

RECURSIVE Normalize(_)
Normalize(s) == IF s = <<>> THEN <<>> ELSE Pieces(Head(s)) \o Normalize(Tail(s))

\* .split(/\s+/): the maximal runs of pieces between white space (the empty
\* strings split() yields at the ends are dropped by the length filter)
RECURSIVE SplitWords(_, _)
SplitWords(ps, cur) ==
  IF ps = <<>> THEN (IF cur = <<>> THEN <<>> ELSE <<cur>>)
  ELSE IF Head(ps) = SP
    THEN (IF cur = <<>> THEN <<>> ELSE <<cur>>) \o SplitWords(Tail(ps), <<>>)
    ELSE SplitWords(Tail(ps), Append(cur, Head(ps)))

MinKeywordLength == 3

\* the stop words that can be spelled with the pieces
isStopWord(w) == w \in {<<"the">>, <<"with">>}

extractKeywords(text) ==
  SelectSeq(SelectSeq(SplitWords(Normalize(text), <<>>),
                      LAMBDA w : WordLen(w) > MinKeywordLength),
            LAMBDA w : ~isStopWord(w))

\* one point for each query keyword that the memory's keywords include
RECURSIVE calculateMatchScore(_, _)
calculateMatchScore(queryKeywords, memoryKeywords) ==
  IF queryKeywords = <<>> THEN 0
  ELSE (IF InSeq(Head(queryKeywords), memoryKeywords) THEN 1 ELSE 0)
         + calculateMatchScore(Tail(queryKeywords), memoryKeywords)

--------------------------------------------------------------------------
(* AsyncStorage: a map from keys to values.  A key is <<prefix, id>>.      *)

conversationKeyPrefix == "conv_"
memoryKeyPrefix == "memory_"
memoryIndexPrefix == "memory_index_"

ConvKey(c) == <<conversationKeyPrefix, c>>
MemoryKey(id) == <<memoryKeyPrefix, id>>
IndexKey(c) == <<memoryIndexPrefix, c>>
CurrentConversationKey == <<"current_conversation_id", 0>>

HasItem(st, k) == k \in DOMAIN st
SetItem(st, k, v) == [x \in (DOMAIN st) \cup {k} |-> IF x = k THEN v ELSE st[x]]
RemoveItem(st, k) == [x \in (DOMAIN st) \ {k} |-> st[x]]

\* key.startsWith(this.memoryKeyPrefix): "memory_index_..." starts with
\* "memory_" too
StartsWithMemoryPrefix(k) == k[1] \in {memoryKeyPrefix, memoryIndexPrefix}

--------------------------------------------------------------------------
(* MemoryEngine *)

MinIndexedLength == 10

getAllMessages(st, c) == IF HasItem(st, ConvKey(c)) THEN st[ConvKey(c)] ELSE <<>>

\* Array.prototype.slice(start) for an integer start: a negative start counts
\* from the end, and -0 is 0
JsSlice(q, start) ==
  IF start < 0 THEN Drop(q, Max(Len(q) + start, 0)) ELSE Drop(q, Min(start, Len(q)))

getRecentMessages(st, c, limit) == JsSlice(getAllMessages(st, c), -limit)

MemoryItem(c, m) ==
  [id |-> m.id, conversationId |-> c, content |-> m.content, role |-> m.role,
   keywords |-> extractKeywords(m.content)]

indexMessageForSearch(st, c, m) ==
  LET st1 == SetItem(st, MemoryKey(m.id), MemoryItem(c, m))
      memoryIds == IF HasItem(st1, IndexKey(c)) THEN st1[IndexKey(c)] ELSE <<>>
  IN  SetItem(st1, IndexKey(c), Append(memoryIds, m.id))

\* mutant: the threshold applied to the content as given, white space included
saveMessage_Untrimmed(st, c, m) ==
  LET st1 == SetItem(st, ConvKey(c), Append(getAllMessages(st, c), m))
  IN  IF StrLen(m.content) > MinIndexedLength
        THEN indexMessageForSearch(st1, c, m)
        ELSE st1

saveMessage(st, c, m) ==
  LET st1 == SetItem(st, ConvKey(c), Append(getAllMessages(st, c), m))
  IN  IF StrLen(Trim(m.content)) > MinIndexedLength
        THEN indexMessageForSearch(st1, c, m)
        ELSE st1

RECURSIVE RemoveMemoryItems(_, _)
RemoveMemoryItems(st, ids) ==
  IF ids = <<>> THEN st
  ELSE RemoveMemoryItems(RemoveItem(st, MemoryKey(Head(ids))), Tail(ids))

\* mutant: the index is dropped and the items it lists are left behind
clearMemoryForConversation_KeepItems(st, c) ==
  IF HasItem(st, IndexKey(c)) THEN RemoveItem(st, IndexKey(c)) ELSE st

clearMemoryForConversation(st, c) ==
  IF HasItem(st, IndexKey(c))
    THEN RemoveItem(RemoveMemoryItems(st, st[IndexKey(c)]), IndexKey(c))
    ELSE st

clearConversation(st, c) == clearMemoryForConversation(RemoveItem(st, ConvKey(c)), c)

\* The storage calls of clearMemoryForConversation are numbered in the
\* order they are made: 1 reads the index, 2..n+1 remove the n items it
\* lists, n+2 removes the index.  failAt is the number of the call that is
\* rejected (it changes nothing); the catch block ends the method there.
clearMemoryForConversationFailing(st, c, failAt) ==
  IF failAt = 1 \/ ~HasItem(st, IndexKey(c)) THEN st
  ELSE LET memoryIds == st[IndexKey(c)]
       IN  IF failAt <= Len(memoryIds) + 1
             THEN RemoveMemoryItems(st, SubSeq(memoryIds, 1, failAt - 2))
           ELSE IF failAt = Len(memoryIds) + 2
             THEN RemoveMemoryItems(st, memoryIds)
           ELSE clearMemoryForConversation(st, c)

\* the storage calls clearConversation(c) makes
StorageCalls(st, c) ==
  2 + (IF HasItem(st, IndexKey(c)) THEN Len(st[IndexKey(c)]) + 1 ELSE 0)

\* clearConversation where a failure while the memory is cleared is thrown on
clearConversationFailing_Propagate(st, c, failAt) ==
  IF failAt = 1 THEN [ok |-> FALSE, storage |-> st]
  ELSE [ok |-> failAt > StorageCalls(st, c),
        storage |-> clearMemoryForConversationFailing(
                      RemoveItem(st, ConvKey(c)), c, failAt - 1)]

\* clearConversation(c) with its storage call number failAt rejected: call
\* 1 removes the log, the others are those of clearMemoryForConversation.
\* ok = FALSE when it throws.
clearConversationFailing(st, c, failAt) ==
  IF failAt = 1 THEN [ok |-> FALSE, storage |-> st]
  ELSE [ok |-> TRUE,
        storage |-> clearMemoryForConversationFailing(
                      RemoveItem(st, ConvKey(c)), c, failAt - 1)]

getAllMemoryKeys(st) == {k \in DOMAIN st : StartsWithMemoryPrefix(k)}


\* the sequences that list every element of the set S once
Orderings(S) ==
  {f \in [1..Cardinality(S) -> S] : \A i, j \in 1..Cardinality(S) : f[i] = f[j] => i = j}

BulletLine(content) == <<"- ">> \o content

\* lines.join('\n\n')
RECURSIVE JoinLines(_)
JoinLines(lines) ==
  IF lines = <<>> THEN <<>>
  ELSE IF Len(lines) = 1 THEN Head(lines)
  ELSE Head(lines) \o <<"\n\n">> \o JoinLines(Tail(lines))

\* retrieveRelevantContext(query, limit): the set of strings it can return;
\* the order of getAllKeys(), and so the order among equal scores, is not
\* specified.  A key "memory_index_<c>" passes the prefix filter of
\* getAllMemoryKeys; its value is an array of ids, which has no keywords and
\* no content, so extractKeywords(undefined) throws a TypeError and the
\* catch block returns ''.
retrieveRelevantContext(st, query, limit) ==
  LET queryKeywords == extractKeywords(query)
      keys == getAllMemoryKeys(st)
      Score(k) == calculateMatchScore(queryKeywords, st[k].keywords)
      matched == {k \in keys : st[k].role # "system" /\ Score(k) > 0}
      sorted == {f \in Orderings(matched) :
                   \A i, j \in 1..Cardinality(matched) :
                     i < j => Score(f[i]) >= Score(f[j])}
  IN  IF \E k \in keys : k[1] = memoryIndexPrefix
        THEN {<<>>}
        ELSE {JoinLines([i \in 1..Min(limit, Cardinality(matched)) |->
                           BulletLine(st[f[i]].content)]) : f \in sorted}

--------------------------------------------------------------------------
(* ActionInterpreter.  JavaScript values are the records of the JSON      *)
(* section; here a string is given by its content, and the values a       *)
(* payload can carry that are not strings or objects are added.           *)

JUndefined == [t |-> "undefined", s |-> "", m |-> <<>>]
JNull == [t |-> "null", s |-> "", m |-> <<>>]
JNum(x) == [t |-> "num", s |-> x, m |-> <<>>]
EmptyArray == [t |-> "arr", s |-> "", m |-> <<>>]

\* ToBoolean(v)
Truthy(v) ==
  CASE v.t = "undefined" -> FALSE
    [] v.t = "null" -> FALSE
    [] v.t = "str" -> v.s # ""
    [] v.t = "num" -> v.s # "0"
    [] OTHER -> TRUE

\* data.k on a value that is not null: undefined unless an object holds k
Get(data, k) ==
  IF data.t = "obj" /\ k \in DOMAIN data.m THEN data.m[k] ELSE JUndefined

\* a || b
Or(a, b) == IF Truthy(a) THEN a ELSE b

AppAction(type, payload) == [type |-> type, payload |-> payload]
NoAction == AppAction("", <<>>)

\* the three ways interpretIntent ends: an action, null, or an exception
Return(a) == [kind |-> "action", action |-> a, error |-> ""]
ReturnNull == [kind |-> "null", action |-> NoAction, error |-> ""]
Throw(message) == [kind |-> "error", action |-> NoAction, error |-> message]

TaskPriorities == {"high", "medium", "low"}
TaskStatuses == {"pending", "in_progress", "completed", "canceled"}
GoalStatuses == {"not_started", "in_progress", "completed", "at_risk", "canceled"}

\* new Date().toISOString().split('T')[0], new Date().toISOString(),
\* `Reflection - ${new Date().toLocaleDateString()}`
Today == JStr("today")
Now == JStr("now")
ReflectionTitle == JStr("Reflection - today")

\* let priority = data.priority || 'medium';
\* if (!['high', 'medium', 'low'].includes(priority)) priority = 'medium'
CoercePriority(v) ==
  LET priority == Or(v, JStr("medium"))
  IN  IF priority.t = "str" /\ priority.s \in TaskPriorities
        THEN priority ELSE JStr("medium")

handleCreateTask(data) ==
  IF ~Truthy(Get(data, "title")) THEN Throw("Task title is required")
  ELSE Return(AppAction("CREATE_TASK",
         [title |-> Get(data, "title"),
          description |-> Or(Get(data, "description"), JStr("")),
          dueDate |-> Or(Get(data, "dueDate"), JNull),
          priority |-> CoercePriority(Get(data, "priority")),
          category |-> Or(Get(data, "category"), JNull),
          tags |-> Or(Get(data, "tags"), EmptyArray),
          status |-> Or(Get(data, "status"), JStr("pending"))]))

\* handleUpdateTask without its validation
handleUpdateTask_Unchecked(data) ==
  Return(AppAction("UPDATE_TASK", [id |-> Get(data, "id"), updates |-> <<>>]))

handleUpdateTask(data) ==
  IF ~Truthy(Get(data, "id")) THEN Throw("Task ID is required")
  ELSE Return(AppAction("UPDATE_TASK",
         [id |-> Get(data, "id"),
          updates |-> [title |-> Get(data, "title"),
                       description |-> Get(data, "description"),
                       dueDate |-> Get(data, "dueDate"),
                       priority |-> Get(data, "priority"),
                       category |-> Get(data, "category"),
                       tags |-> Get(data, "tags"),
                       status |-> Get(data, "status")]]))

handleDeleteTask(data) ==
  IF ~Truthy(Get(data, "id")) THEN Throw("Task ID is required")
  ELSE Return(AppAction("DELETE_TASK", [id |-> Get(data, "id")]))

handleCreateGoal(data) ==
  IF ~Truthy(Get(data, "title")) THEN Throw("Goal title is required")
  ELSE Return(AppAction("CREATE_GOAL",
         [title |-> Get(data, "title"),
          description |-> Or(Get(data, "description"), JStr("")),
          dueDate |-> Or(Get(data, "dueDate"), JNull),
          parentId |-> Or(Get(data, "parentId"), JNull),
          status |-> Or(Get(data, "status"), JStr("not_started")),
          tags |-> Or(Get(data, "tags"), EmptyArray),
          category |-> Or(Get(data, "category"), JNull),
          metrics |-> Or(Get(data, "metrics"), EmptyArray)]))

handleUpdateGoal(data) ==
  IF ~Truthy(Get(data, "id")) THEN Throw("Goal ID is required")
  ELSE Return(AppAction("UPDATE_GOAL",
         [id |-> Get(data, "id"),
          updates |-> [title |-> Get(data, "title"),
                       description |-> Get(data, "description"),
                       dueDate |-> Get(data, "dueDate"),
                       status |-> Get(data, "status"),
                       progress |-> Get(data, "progress"),
                       tags |-> Get(data, "tags"),
                       category |-> Get(data, "category"),
                       metrics |-> Get(data, "metrics")]]))

handleCreateHabit(data) ==
  IF ~Truthy(Get(data, "title")) THEN Throw("Habit title is required")
  ELSE Return(AppAction("CREATE_HABIT",
         [title |-> Get(data, "title"),
          description |-> Or(Get(data, "description"), JStr("")),
          frequency |-> Or(Get(data, "frequency"), JStr("daily")),
          timeOfDay |-> Or(Get(data, "timeOfDay"), JNull),
          category |-> Or(Get(data, "category"), JNull),
          triggers |-> Or(Get(data, "triggers"), EmptyArray),
          obstacles |-> Or(Get(data, "obstacles"), EmptyArray),
          strategies |-> Or(Get(data, "strategies"), EmptyArray)]))

handleCompleteHabit(data) ==
  IF ~Truthy(Get(data, "id")) THEN Throw("Habit ID is required")
  ELSE Return(AppAction("COMPLETE_HABIT",
         [id |-> Get(data, "id"), date |-> Or(Get(data, "date"), Today)]))

handleNavigate(data) ==
  IF ~Truthy(Get(data, "screen")) THEN Throw("Navigation screen is required")
  ELSE Return(AppAction("NAVIGATE",
         [screen |-> Get(data, "screen"),
          params |-> Or(Get(data, "params"), EmptyObject)]))

handleCreateReflection(data) ==
  IF ~Truthy(Get(data, "content")) THEN Throw("Reflection content is required")
  ELSE Return(AppAction("CREATE_REFLECTION",
         [content |-> Get(data, "content"),
          title |-> Or(Get(data, "title"), ReflectionTitle),
          tags |-> Or(Get(data, "tags"), EmptyArray),
          mood |-> Or(Get(data, "mood"), JNull),
          relatedGoals |-> Or(Get(data, "relatedGoals"), EmptyArray)]))

handleDisplayMessage(data) ==
  IF ~Truthy(Get(data, "message")) THEN Throw("Display message is required")
  ELSE Return(AppAction("DISPLAY_MESSAGE",
         [message |-> Get(data, "message"),
          type |-> Or(Get(data, "type"), JStr("info")),
          duration |-> Or(Get(data, "duration"), JNum("3000"))]))

handleTrackMetric(data) ==
  IF ~Truthy(Get(data, "name")) \/ Get(data, "value") = JUndefined
    THEN Throw("Metric name and value are required")
  ELSE Return(AppAction("TRACK_METRIC",
         [name |-> Get(data, "name"),
          value |-> Get(data, "value"),
          timestamp |-> Or(Get(data, "timestamp"), Now),
          category |-> Or(Get(data, "category"), JNull),
          notes |-> Or(Get(data, "notes"), JNull)]))

\* the action names of the switch, each with the field its handler reads
\* first
ActionNames == {"create_task", "update_task", "delete_task", "create_goal",
                "update_goal", "create_habit", "complete_habit", "navigate",
                "create_reflection", "display_message", "track_metric"}

FirstField(name) ==
  CASE name \in {"create_task", "create_goal", "create_habit"} -> "title"
    [] name \in {"update_task", "delete_task", "update_goal", "complete_habit"} -> "id"
    [] name = "navigate" -> "screen"
    [] name = "create_reflection" -> "content"
    [] name = "display_message" -> "message"
    [] name = "track_metric" -> "name"

\* reading a property of null throws a TypeError
TypeErrorMessage(field) ==
  "TypeError: Cannot read properties of null (reading '" \o field \o "')"

\* interpretIntent(intent); the action name is a text of one token
interpretIntent(intent) ==
  LET data == intent.data
      action == IF Len(intent.action) = 1 THEN intent.action[1] ELSE ""
  IN  IF action \notin ActionNames THEN ReturnNull
      ELSE IF data.t = "null" THEN Throw(TypeErrorMessage(FirstField(action)))
      ELSE CASE action = "create_task" -> handleCreateTask(data)
             [] action = "update_task" -> handleUpdateTask(data)
             [] action = "delete_task" -> handleDeleteTask(data)
             [] action = "create_goal" -> handleCreateGoal(data)
             [] action = "update_goal" -> handleUpdateGoal(data)
             [] action = "create_habit" -> handleCreateHabit(data)
             [] action = "complete_habit" -> handleCompleteHabit(data)
             [] action = "navigate" -> handleNavigate(data)
             [] action = "create_reflection" -> handleCreateReflection(data)
             [] action = "display_message" -> handleDisplayMessage(data)
             [] action = "track_metric" -> handleTrackMetric(data)

\* processSystemIntents without the try/catch: the first exception ends it
RECURSIVE processSystemIntents_Abort(_)
processSystemIntents_Abort(intents) ==
  IF intents = <<>> THEN <<>>
  ELSE LET r == interpretIntent(Head(intents)) IN
    IF r.kind = "error" THEN <<>>
    ELSE IF r.kind = "action"
      THEN <<r.action>> \o processSystemIntents_Abort(Tail(intents))
      ELSE processSystemIntents_Abort(Tail(intents))

\* processSystemIntents(intents): the actions pushed by the for loop
RECURSIVE processSystemIntents(_)
processSystemIntents(intents) ==
  IF intents = <<>> THEN <<>>
  ELSE LET r == interpretIntent(Head(intents)) IN
    IF r.kind = "action"
      THEN <<r.action>> \o processSystemIntents(Tail(intents))
      ELSE processSystemIntents(Tail(intents))


--------------------------------------------------------------------------
(* AICoreService: conversation id and context window *)

MaxMsgs == 3       \* message ids generated in one run
MaxConvs == 2      \* conversation ids generated in one run
NoConv == 0        \* conversationId = null
RecentLimit == 10  \* the context window loaded and sent

Roles == {"user", "assistant", "system"}

\* message texts: 4, 11 (4 without the padding) and 16 characters
Texts == {
  <<"plan">>,
  <<SP, SP, SP, SP, "plan", SP, SP, SP>>,
  <<"project", SP, "deadline">> }

\* the queries context is retrieved for
Queries == Texts \cup {<<"Deadline,", SP, "with", SP, "the", SP, "plan">>}

\* what the completion endpoint answers
ModelReplies == {
  <<"project", SP, "plan">>,
  Occurrence(<<"a">>) \o <<SP, "deadline">> }

WelcomeText == <<"welcome">>

Message(id, role, content) == [id |-> id, role |-> role, content |-> content]

\* mutant: a stored conversation is resumed without loading its messages
initConversation_KeepWindow(st, cw, nc) ==
  IF HasItem(st, CurrentConversationKey)
    THEN [cid |-> st[CurrentConversationKey], cw |-> cw, st |-> st, nc |-> nc]
    ELSE [cid |-> nc, cw |-> cw,
          st |-> SetItem(st, CurrentConversationKey, nc), nc |-> nc + 1]

\* initConversation: the state it leaves
initConversation(st, cw, nc) ==
  IF HasItem(st, CurrentConversationKey)
    THEN [cid |-> st[CurrentConversationKey],
          cw |-> getRecentMessages(st, st[CurrentConversationKey], RecentLimit),
          st |-> st, nc |-> nc]
    ELSE [cid |-> nc, cw |-> cw,
          st |-> SetItem(st, CurrentConversationKey, nc), nc |-> nc + 1]

InitMemory ==
  /\ storage = <<>>
  /\ conversationId = NoConv
  /\ contextWindow = <<>>
  /\ nextMsg = 1
  /\ nextConv = 1
  /\ last = [op |-> "none"]
  /\ personas = BuiltInPersonas
  /\ customLoaded = TRUE
  /\ nextPersona = 1
  /\ calls = <<>>
  /\ ServicesIdle
  /\ response = <<>>
  /\ xpc = "input"
  /\ parsed = NoResult
  /\ reparsed = NoResult

AIInitConversation ==
  /\ HasItem(storage, CurrentConversationKey) \/ nextConv <= MaxConvs
  /\ LET r == initConversation(storage, contextWindow, nextConv) IN
       /\ conversationId' = r.cid
       /\ contextWindow' = r.cw
       /\ storage' = r.st
       /\ nextConv' = r.nc
  /\ last' = [op |-> "initConversation"]
  /\ UNCHANGED <<nextMsg, xvars, pvars, cvars, svars>>

\* what the completion endpoint does with one request: a 2xx answer with a
\* message, a non-2xx answer, no answer, or a 2xx answer without the
\* message field
Completion(reply) == [kind |-> "ok", content |-> reply]
HttpError == [kind |-> "http_error", content |-> <<>>]
NetworkError == [kind |-> "network_error", content |-> <<>>]
NoMessageField == [kind |-> "no_message", content |-> <<>>]
Failures == {HttpError, NetworkError, NoMessageField}
Outcomes == {Completion(reply) : reply \in ModelReplies} \cup Failures

\* callOpenAI with its failure swallowed: an empty answer is returned
callOpenAI_Swallow(outcome) == [ok |-> TRUE, content |-> outcome.content]

\* callOpenAI(messages): ok = FALSE when it throws.  axios rejects a non-2xx
\* answer and a network failure, and reading choices[0].message.content of
\* a body without the message throws inside the same try block.
callOpenAI(outcome) ==
  [ok |-> outcome.kind = "ok", content |-> outcome.content]

PayloadWindow == 10   \* contextWindow.slice(-10)
RetrievalLimit == 3   \* retrieveRelevantContext(userMessage, 3)

SystemInstructions == <<"system instructions">>
\* the second system entry: user profile, retrieved context, date and time
ContextEntry(relevantMemories) ==
  <<"user profile">> \o relevantMemories \o <<"date and time">>

PayloadEntry(role, content) == [role |-> role, content |-> content]

RECURSIVE MapToEntries(_)
MapToEntries(ms) ==
  IF ms = <<>> THEN <<>>
  ELSE <<PayloadEntry(Head(ms).role, Head(ms).content)>> \o MapToEntries(Tail(ms))

\* buildMessagePayload without the slice: the whole context window is sent
buildMessagePayload_WholeWindow(cw, relevantMemories) ==
  << PayloadEntry("system", SystemInstructions),
     PayloadEntry("system", ContextEntry(relevantMemories)) >>
    \o MapToEntries(cw)

\* buildMessagePayload(relevantMemories, userProfile) over this.contextWindow
buildMessagePayload(cw, relevantMemories) ==
  << PayloadEntry("system", SystemInstructions),
     PayloadEntry("system", ContextEntry(relevantMemories)) >>
    \o MapToEntries(JsSlice(cw, -PayloadWindow))

\* the text the catch block of sendMessage returns
FallbackText == <<"fallback">>

\* sendMessage(userMessage) from the state (st, cid, cw), with what the
\* completion endpoint does with the request: the state it leaves and what
\* it returns.  A failed call leaves through the catch block.  (The calls
\* into the profile engine, getCurrentProfile and updateFromInteraction,
\* throw nothing and write only the profile and its interaction count.)
sendMessage(st, cid, cw, nm, nc, userMessage, outcome) ==
  LET r == IF cid = NoConv
             THEN initConversation(st, cw, nc)
             ELSE [cid |-> cid, cw |-> cw, st |-> st, nc |-> nc]
      message == Message(nm, "user", userMessage)
      cw1 == Append(r.cw, message)
      st1 == saveMessage(r.st, r.cid, message)
      resp == callOpenAI(outcome)
      p == parseResponse(resp.content)
      aiMessage == Message(nm + 1, "assistant", p.text)
  IN [cid |-> r.cid, nc |-> r.nc, ok |-> resp.ok,
      sent |-> cw1, searched |-> st1,
      cw |-> IF resp.ok THEN Append(cw1, aiMessage) ELSE cw1,
      st |-> IF resp.ok THEN saveMessage(st1, r.cid, aiMessage) ELSE st1,
      nm |-> IF resp.ok THEN nm + 2 ELSE nm + 1,
      response |-> IF resp.ok THEN p.text ELSE FallbackText,
      actions |-> IF resp.ok THEN processSystemIntents(p.intents) ELSE <<>>]

\* aiCoreService.sendMessage(userMessage)
AISendMessage(userMessage, outcome) ==
  /\ nextMsg + 1 <= MaxMsgs
  /\ conversationId # NoConv
       \/ HasItem(storage, CurrentConversationKey) \/ nextConv <= MaxConvs
  /\ \E done \in {sendMessage(storage, conversationId, contextWindow, nextMsg,
                               nextConv, userMessage, outcome)} :
         /\ conversationId' = done.cid
         /\ nextConv' = done.nc
         /\ contextWindow' = done.cw
         /\ storage' = done.st
         /\ nextMsg' = done.nm
         /\ \E relevantMemories \in
                retrieveRelevantContext(done.searched, userMessage, RetrievalLimit) :
              last' = [op |-> "sendMessage", conv |-> done.cid, ok |-> done.ok,
                       userMessage |-> userMessage, outcome |-> outcome,
                       payload |-> buildMessagePayload(done.sent, relevantMemories),
                       requests |-> 1,
                       threw |-> FALSE,
                       response |-> done.response,
                       actions |-> done.actions]
  /\ UNCHANGED <<xvars, pvars, cvars, svars>>

\* AICoreService.clearConversation
AIClearConversation ==
  /\ nextMsg <= MaxMsgs
  /\ nextConv <= MaxConvs
  /\ LET welcomeMessage == Message(nextMsg, "assistant", WelcomeText) IN
       /\ contextWindow' = <<welcomeMessage>>
       /\ conversationId' = nextConv
       /\ storage' = saveMessage(SetItem(storage, CurrentConversationKey, nextConv),
                                 nextConv, welcomeMessage)
  /\ nextConv' = nextConv + 1
  /\ nextMsg' = nextMsg + 1
  /\ last' = [op |-> "aiClearConversation", conv |-> conversationId]
  /\ UNCHANGED <<xvars, pvars, cvars, svars>>

\* memoryEngine.saveMessage(c, m) called with a new message of any role
SaveMessage(c, role, content) ==
  /\ nextMsg <= MaxMsgs
  /\ storage' = saveMessage(storage, c, Message(nextMsg, role, content))
  /\ nextMsg' = nextMsg + 1
  /\ last' = [op |-> "saveMessage", conv |-> c,
              msg |-> Message(nextMsg, role, content)]
  /\ UNCHANGED <<conversationId, contextWindow, nextConv, xvars, pvars, cvars, svars>>

\* memoryEngine.clearConversation(c)
ClearConversation(c) ==
  /\ storage' = clearConversation(storage, c)
  /\ last' = [op |-> "clearConversation", conv |-> c,
              removed |-> Len(getAllMessages(storage, c))]
  /\ UNCHANGED <<conversationId, contextWindow, nextMsg, nextConv, xvars, pvars, cvars, svars>>

\* memoryEngine.clearConversation(c) while one storage call is rejected
ClearConversationFailing(c, failAt) ==
  /\ LET r == clearConversationFailing(storage, c, failAt) IN
       /\ storage' = r.storage
       /\ last' = [op |-> "clearConversationFailing", conv |-> c,
                   failAt |-> failAt, ok |-> r.ok]
  /\ UNCHANGED <<conversationId, contextWindow, nextMsg, nextConv, xvars, pvars, cvars, svars>>

\* the conversation ids in use
Conversations == 1..(nextConv - 1)

NextMemory ==
  \/ AIInitConversation
  \/ \E t \in Texts : \E o \in Outcomes : AISendMessage(t, o)
  \/ AIClearConversation
  \/ \E c \in Conversations : \E role \in Roles : \E t \in Texts : SaveMessage(c, role, t)
  \/ \E c \in Conversations : ClearConversation(c)

SpecMemory == InitMemory /\ [][NextMemory]_vars

\* The memory engine with a storage that can reject a call while a
\* conversation is cleared
NextClearFailure ==
  \/ AIInitConversation
  \/ \E c \in Conversations : \E role \in Roles : \E t \in Texts : SaveMessage(c, role, t)
  \/ \E c \in Conversations : \E failAt \in 1..StorageCalls(storage, c) :
       ClearConversationFailing(c, failAt)

SpecClearFailure == InitMemory /\ [][NextClearFailure]_vars

--------------------------------------------------------------------------
(* Claims about the conversation memory, checked under SpecMemory *)

MaxLimit == 4      \* the limits getRecentMessages is asked for: 0..MaxLimit

\* the last n elements of q
LastN(q, n) == SubSeq(q, Len(q) - n + 1, Len(q))

\* C4: for every conversation and every limit N >= 0, getRecentMessages
\* returns the last min(N, |C|) messages of the stored log, in order.
C4_RecentIsLastN ==
  \A c \in Conversations : \A n \in 0..MaxLimit :
    getRecentMessages(storage, c, n)
      = LastN(getAllMessages(storage, c), Min(n, Len(getAllMessages(storage, c))))

\* the keys of the memory items, and the memory index of a conversation
ItemKeys(st) == {k \in DOMAIN st : k[1] = memoryKeyPrefix}
ItemsOf(st, c) == {k \in ItemKeys(st) : st[k].conversationId = c}
IndexOf_(st, c) == IF HasItem(st, IndexKey(c)) THEN st[IndexKey(c)] ELSE <<>>
Count(x, q) == Cardinality({i \in 1..Len(q) : q[i] = x})

IsSaveMessageStep == last'.op = "saveMessage" /\ nextMsg' = nextMsg + 1

C6_ClearRemovesConversation ==
  [][last'.op = "clearConversation" =>
       LET c == last'.conv
       IN  /\ ~HasItem(storage', ConvKey(c))
           /\ ~HasItem(storage', IndexKey(c))
           /\ ItemsOf(storage', c) = {}
           /\ \A n \in 0..MaxLimit : getRecentMessages(storage', c, n) = <<>>
           /\ DOMAIN storage' \subseteq DOMAIN storage
           /\ \A k \in DOMAIN storage :
                k \notin ({ConvKey(c), IndexKey(c)} \cup ItemsOf(storage, c)) =>
                  HasItem(storage', k) /\ storage'[k] = storage[k]]_vars

\* a conversation holding messages was cleared while another conversation
\* keeps its messages and its MemoryItems
C6_Witness ==
  /\ last.op = "clearConversation"
  /\ last.removed > 0
  /\ \E d \in Conversations \ {last.conv} :
       getAllMessages(storage, d) # <<>> /\ ItemsOf(storage, d) # {}

\* C7: after AICoreService.clearConversation the MemoryItems of the cleared
\* conversation are deleted, so context retrieval returns nothing said in it.
C7_ServiceClearDeletesItems ==
  (last.op = "aiClearConversation" /\ last.conv # NoConv) =>
    /\ ItemsOf(storage, last.conv) = {}
    /\ \A q \in Queries : \A r \in retrieveRelevantContext(storage, q, 3) :
         \A k \in ItemsOf(storage, last.conv) :
           IndexOf(r, BulletLine(storage[k].content)) = 0

\* the items that share a keyword with the query
Matching(st, q) ==
  {k \in ItemKeys(st) :
     /\ st[k].role # "system"
     /\ calculateMatchScore(extractKeywords(q), st[k].keywords) > 0}

\* C8: a stored non-system message that shares a keyword with the query is in
\* the retrieved context, as a bullet line, for every limit that is at least
\* the number of matching items.
C8_RetrievalRoundTrip ==
  \A q \in Queries : \A k \in Matching(storage, q) :
    \A limit \in Cardinality(Matching(storage, q))..MaxLimit :
      \A r \in retrieveRelevantContext(storage, q, limit) :
        IndexOf(r, BulletLine(storage[k].content)) # 0

--------------------------------------------------------------------------
(* AICoreService started on a conversation of an earlier session: the log *)
(* holds up to MaxHistory messages, of which initConversation has loaded   *)
(* the last ten into the context window.                                   *)

MaxHistory == 11

\* the i-th of n earlier messages; ids generated earlier are below this
\* session's
HistoryMessage(i, n) ==
  IF i % 2 = 1 THEN Message(i - n, "user", <<"project", SP, "deadline">>)
               ELSE Message(i - n, "assistant", <<"project", SP, "plan">>)

History(n) == [i \in 1..n |-> HistoryMessage(i, n)]

RECURSIVE SaveAll(_, _, _)
SaveAll(st, c, ms) ==
  IF ms = <<>> THEN st ELSE SaveAll(saveMessage(st, c, Head(ms)), c, Tail(ms))

\* an answer with an occurrence inside the text of a failed one
NestedReply ==
  <<LT, RT, "a", COLON>> \o Occurrence(<<"a">>) \o <<"x">> \o Occurrence(<<"a">>)

PayloadOutcomes ==
  {Completion(reply) : reply \in ModelReplies \cup {NestedReply}} \cup {HttpError}

InitPayload ==
  /\ \E n \in 0..MaxHistory :
       storage = SaveAll(SetItem(<<>>, CurrentConversationKey, 1), 1, History(n))
  /\ conversationId = 1
  /\ contextWindow = getRecentMessages(storage, 1, RecentLimit)
  /\ nextMsg = 1
  /\ nextConv = 2
  /\ last = [op |-> "initConversation"]
  /\ personas = BuiltInPersonas
  /\ customLoaded = TRUE
  /\ nextPersona = 1
  /\ calls = <<>>
  /\ ServicesIdle
  /\ response = <<>>
  /\ xpc = "input"
  /\ parsed = NoResult
  /\ reparsed = NoResult

NextPayload == \E t \in Texts : \E o \in PayloadOutcomes : AISendMessage(t, o)

SpecPayload == InitPayload /\ [][NextPayload]_vars

--------------------------------------------------------------------------
(* Claims about sendMessage *)

\* C16: the payload of a completion call is two system entries followed by
\* the last min(10, n) turns of the context window, in order, as
\* {role, content}, the user message being sent last; the context window,
\* the conversation log and the personas are not cut or changed by it.
C16_PayloadIsRecentWindow ==
  [][(last'.op = "sendMessage" /\ conversationId # NoConv) =>
       LET sent == PayloadEntry("user", last'.userMessage)
           history == Append(MapToEntries(contextWindow), sent)
           k == Min(10, Len(history))
           payload == last'.payload
           log == getAllMessages(storage, conversationId)
       IN  /\ Len(payload) = 2 + k
           /\ payload[1].role = "system" /\ payload[2].role = "system"
           /\ SubSeq(payload, 3, 2 + k) = LastN(history, k)
           /\ payload[Len(payload)] = sent
           /\ SubSeq(MapToEntries(contextWindow'), 1, Len(history)) = history
           /\ SubSeq(getAllMessages(storage', conversationId), 1, Len(log)) = log
           /\ personas' = personas]_vars

\* a payload cut to ten turns out of a longer context window
C16_Witness ==
  /\ last.op = "sendMessage"
  /\ Len(contextWindow) > 10
  /\ Len(last.payload) = 12

\* C17: a successful sendMessage appends to the log of the current
\* conversation the user message and then the assistant message, whose
\* content is the answer without its recognized occurrences, and leaves
\* the earlier messages as they were.
C17_LogGrowsByTwo ==
  [][(last'.op = "sendMessage" /\ last'.ok) =>
       LET old == getAllMessages(storage, conversationId')
           new == getAllMessages(storage', conversationId')
           reply == last'.outcome.content
           n == Len(old)
       IN  /\ Len(new) = n + 2
           /\ SubSeq(new, 1, n) = old
           /\ new[n + 1].role = "user"
           /\ new[n + 1].content = last'.userMessage
           /\ new[n + 2].role = "assistant"
           /\ new[n + 2].content = Trim(RemoveSpans(reply, ParsedMatches(reply), 1))]_vars

\* C18: when the completion call fails, sendMessage has issued one request,
\* does not throw and returns the fallback text without actions; the log
\* has grown by the user message alone.
C18_FailureGivesFallback ==
  [][(last'.op = "sendMessage" /\ last'.outcome \in Failures) =>
       LET old == getAllMessages(storage, conversationId')
           new == getAllMessages(storage', conversationId')
           n == Len(old)
       IN  /\ last'.requests = 1
           /\ ~last'.threw
           /\ last'.response = FallbackText
           /\ last'.actions = <<>>
           /\ Len(new) = n + 1
           /\ SubSeq(new, 1, n) = old
           /\ new[n + 1].role = "user"
           /\ new[n + 1].content = last'.userMessage]_vars

\* a failed call has left the user message at the end of the log
C18_Witness ==
  /\ last.op = "sendMessage"
  /\ last.outcome \in Failures
  /\ last.response = FallbackText
  /\ LET log == getAllMessages(storage, conversationId)
     IN  /\ log # <<>>
         /\ log[Len(log)].role = "user"
         /\ log[Len(log)].content = last.userMessage

\* C20: a clearConversation(C) in which reading the index, removing a
\* memory item or removing the index fails still completes without an
\* error and has removed C's log; it fails exactly when the removal of the
\* log itself fails.
C20_ClearSurvivesMemoryFailure ==
  [][last'.op = "clearConversationFailing" =>
       /\ last'.ok <=> last'.failAt # 1
       /\ last'.failAt > 1 => ~HasItem(storage', ConvKey(last'.conv))
       /\ last'.failAt = 1 => storage' = storage]_vars

\* the removal of a memory item failed: the call completed, the log is
\* gone and items of the conversation are still stored
C20_Witness ==
  /\ last.op = "clearConversationFailing"
  /\ last.failAt > 1
  /\ last.ok
  /\ ~HasItem(storage, ConvKey(last.conv))
  /\ ItemsOf(storage, last.conv) # {}

--------------------------------------------------------------------------
(* MemoryEngine.saveMessage call by call.  Every await of a storage call   *)
(* is a point where another call in flight can run; a call is at           *)
(*   "start"      before it has read the log                               *)
(*   "read"       with the log it read in messages                         *)
(*   "written"    after it has written the log, about to index the message *)
(*   "item"       after it has written the memory item                     *)
(*   "indexread"  with the index it read in memoryIds                      *)
(*   "done"       at its end                                               *)

MaxCalls == 2

\* messages.push(message); setItem(key, JSON.stringify(messages)), made
\* atomic: the log is read again when it is written
saveMessageWrite_Atomic(st, c, messages, m) ==
  SetItem(st, ConvKey(c), Append(getAllMessages(st, c), m))

\* messages.push(message); setItem(key, JSON.stringify(messages))
saveMessageWrite(st, c, messages, m) ==
  SetItem(st, ConvKey(c), Append(messages, m))

Call(c, m) ==
  [pc |-> "start", conv |-> c, msg |-> m, messages |-> <<>>, memoryIds |-> <<>>]

CallIds == DOMAIN calls

InitRace ==
  /\ \E n \in 0..1 :
       storage = SaveAll(SetItem(<<>>, CurrentConversationKey, 1), 1, History(n))
  /\ conversationId = 1
  /\ contextWindow = getRecentMessages(storage, 1, RecentLimit)
  /\ \E cs \in [1..MaxCalls -> 1..2] : \E ts \in [1..MaxCalls -> Texts] :
       calls = [i \in 1..MaxCalls |-> Call(cs[i], Message(i, "user", ts[i]))]
  /\ nextMsg = MaxCalls + 1
  /\ nextConv = 3
  /\ last = [op |-> "initConversation"]
  /\ personas = BuiltInPersonas
  /\ customLoaded = TRUE
  /\ nextPersona = 1
  /\ response = <<>>
  /\ xpc = "input"
  /\ parsed = NoResult
  /\ reparsed = NoResult
  /\ ServicesIdle

RaceFrame ==
  UNCHANGED <<conversationId, contextWindow, nextMsg, nextConv, last, xvars, pvars,
              svars>>

\* const existingData = await AsyncStorage.getItem(key)
SaveRead(i) ==
  /\ calls[i].pc = "start"
  /\ calls' = [calls EXCEPT ![i].pc = "read",
                            ![i].messages = getAllMessages(storage, calls[i].conv)]
  /\ UNCHANGED storage
  /\ RaceFrame

\* await AsyncStorage.setItem(key, JSON.stringify(messages)), and the test
\* that decides whether the message is indexed
SaveWrite(i) ==
  /\ calls[i].pc = "read"
  /\ storage' = saveMessageWrite(storage, calls[i].conv, calls[i].messages, calls[i].msg)
  /\ calls' = [calls EXCEPT ![i].pc =
                 IF StrLen(Trim(calls[i].msg.content)) > MinIndexedLength
                   THEN "written" ELSE "done"]
  /\ RaceFrame

\* indexMessageForSearch: await AsyncStorage.setItem(key, memoryItem)
IndexSetItem(i) ==
  /\ calls[i].pc = "written"
  /\ storage' = SetItem(storage, MemoryKey(calls[i].msg.id),
                        MemoryItem(calls[i].conv, calls[i].msg))
  /\ calls' = [calls EXCEPT ![i].pc = "item"]
  /\ RaceFrame

\* const existingIndex = await AsyncStorage.getItem(indexKey)
IndexRead(i) ==
  /\ calls[i].pc = "item"
  /\ calls' = [calls EXCEPT ![i].pc = "indexread",
                 ![i].memoryIds = IF HasItem(storage, IndexKey(calls[i].conv))
                                    THEN storage[IndexKey(calls[i].conv)] ELSE <<>>]
  /\ UNCHANGED storage
  /\ RaceFrame

\* memoryIds.push(message.id); await AsyncStorage.setItem(indexKey, memoryIds)
IndexWrite(i) ==
  /\ calls[i].pc = "indexread"
  /\ storage' = SetItem(storage, IndexKey(calls[i].conv),
                        Append(calls[i].memoryIds, calls[i].msg.id))
  /\ calls' = [calls EXCEPT ![i].pc = "done"]
  /\ RaceFrame

NextRace ==
  \E i \in CallIds :
    \/ SaveRead(i)
    \/ SaveWrite(i)
    \/ IndexSetItem(i)
    \/ IndexRead(i)
    \/ IndexWrite(i)

SpecRace == InitRace /\ [][NextRace]_vars

\* the calls made on conversation c, and those of them that have written
CallsOn(c) == {i \in CallIds : calls[i].conv = c}
HasWritten(i) == calls[i].pc \notin {"start", "read"}

\* C19: the log is written as a whole: once every call on a conversation
\* has written, the stored log is what one of the calls had read, followed
\* by that call's message alone, so a message written in between by another
\* call is not in it.
C19_LogIsLastWritersCopy ==
  \A c \in 1..2 :
    (CallsOn(c) # {} /\ \A i \in CallsOn(c) : HasWritten(i)) =>
      \E w \in CallsOn(c) :
        getAllMessages(storage, c) = Append(calls[w].messages, calls[w].msg)

\* two calls on one conversation have both read the log before either wrote
\* it, both are done, and the log holds one of the two messages only
C19_Witness ==
  \E i, j \in CallIds :
    /\ i # j
    /\ calls[i].conv = calls[j].conv
    /\ calls[i].pc = "done" /\ calls[j].pc = "done"
    /\ calls[i].messages = calls[j].messages
    /\ InSeq(calls[i].msg, getAllMessages(storage, calls[i].conv))
    /\ ~InSeq(calls[j].msg, getAllMessages(storage, calls[i].conv))

--------------------------------------------------------------------------
(* ActionInterpreter: inputs and specification *)

\* The intents the interpreter is exercised on.  A payload is null, a
\* string, or an object holding up to MaxFields of the fields the handlers
\* read, each with a value that is acceptable and one that is not.
MaxFields == 2
MaxIntents == 3

DataFields == {"title", "id", "screen", "content", "message", "name",
               "value", "priority", "status"}

FieldValues(k) ==
  CASE k = "title" -> {JStr("t"), JStr("")}
    [] k = "id" -> {JStr("i1"), JNum("0")}
    [] k = "screen" -> {JStr("home")}
    [] k = "content" -> {JStr("c")}
    [] k = "message" -> {JStr("m")}
    [] k = "name" -> {JStr("n"), JStr("")}
    [] k = "value" -> {JNum("0"), JNull}
    [] k = "priority" -> {JStr("high"), JStr("urgent")}
    [] k = "status" -> {JStr("completed"), JStr("done")}

DataObjects ==
  UNION {{f \in [S -> UNION {FieldValues(k) : k \in S}] :
            \A k \in S : f[k] \in FieldValues(k)} :
         S \in {T \in SUBSET DataFields : Cardinality(T) <= MaxFields}}

DataValues == {JObj(f) : f \in DataObjects} \cup {JNull, JStr("abc")}

Intent(action, data) == [action |-> <<action>>, data |-> data]

Intents == {Intent(a, d) : a \in ActionNames \cup {"remind_me"}, d \in DataValues}

\* the intents the lists of several intents are made of
ListIntents == {
  Intent("create_task", JObj([title |-> JStr("t")])),
  Intent("update_task", EmptyObject),
  Intent("remind_me", EmptyObject),
  Intent("navigate", JObj([screen |-> JStr("home")])),
  Intent("delete_task", JNull) }

IntentLists ==
  {<<i>> : i \in Intents}
    \cup UNION {[1..n -> ListIntents] : n \in 0..MaxIntents}

InitInterpret ==
  /\ response = <<>>
  /\ xpc = "parsed"
  /\ \E is \in IntentLists : parsed = [text |-> <<>>, intents |-> is]
  /\ reparsed = NoResult
  /\ storage = <<>>
  /\ conversationId = NoConv
  /\ contextWindow = <<>>
  /\ nextMsg = 1
  /\ nextConv = 1
  /\ last = [op |-> "none"]
  /\ personas = BuiltInPersonas
  /\ customLoaded = TRUE
  /\ nextPersona = 1
  /\ calls = <<>>
  /\ ServicesIdle

\* actionInterpreter.interpretIntent(intent) on one of the parsed intents
InterpretIntent(i) ==
  /\ last' = [op |-> "interpretIntent", intent |-> parsed.intents[i],
              result |-> interpretIntent(parsed.intents[i])]
  /\ UNCHANGED <<xvars, storage, conversationId, contextWindow, nextMsg,
                 nextConv, pvars, cvars, svars>>

\* const actions = await this.processSystemIntents(intents)
ProcessSystemIntents ==
  /\ last' = [op |-> "processSystemIntents", intents |-> parsed.intents,
              actions |-> processSystemIntents(parsed.intents)]
  /\ UNCHANGED <<xvars, storage, conversationId, contextWindow, nextMsg,
                 nextConv, pvars, cvars, svars>>

NextInterpret ==
  \/ \E i \in 1..Len(parsed.intents) : InterpretIntent(i)
  \/ ProcessSystemIntents

SpecInterpret == InitInterpret /\ [][NextInterpret]_vars

--------------------------------------------------------------------------
(* Claims about the action interpreter, checked under SpecInterpret *)

\* the fields each action requires, and the type of the action it yields
RequiredFields(name) ==
  IF name = "track_metric" THEN {"name", "value"} ELSE {FirstField(name)}

ActionType(name) ==
  CASE name = "create_task" -> "CREATE_TASK"
    [] name = "update_task" -> "UPDATE_TASK"
    [] name = "delete_task" -> "DELETE_TASK"
    [] name = "create_goal" -> "CREATE_GOAL"
    [] name = "update_goal" -> "UPDATE_GOAL"
    [] name = "create_habit" -> "CREATE_HABIT"
    [] name = "complete_habit" -> "COMPLETE_HABIT"
    [] name = "navigate" -> "NAVIGATE"
    [] name = "create_reflection" -> "CREATE_REFLECTION"
    [] name = "display_message" -> "DISPLAY_MESSAGE"
    [] name = "track_metric" -> "TRACK_METRIC"

\* the fields an error message names
NamedFields(message) ==
  CASE message \in {"Task title is required", "Goal title is required",
                    "Habit title is required"} -> {"title"}
    [] message \in {"Task ID is required", "Goal ID is required",
                    "Habit ID is required"} -> {"id"}
    [] message = "Navigation screen is required" -> {"screen"}
    [] message = "Reflection content is required" -> {"content"}
    [] message = "Display message is required" -> {"message"}
    [] message = "Metric name and value are required" -> {"name", "value"}
    [] OTHER -> {}

ActionName(intent) == intent.action[1]
Recognized(intent) == ActionName(intent) \in ActionNames

\* the payload holds the field, whatever its value
Present(data, k) == data.t = "obj" /\ k \in DOMAIN data.m

\* the payload holds the field with a value the handler accepts: a truthy
\* one, or for the value of a metric any defined one
Supplied(data, k) ==
  Present(data, k) /\ (k = "value" \/ Truthy(data.m[k]))

\* C13 as stated: a recognized intent fails, naming a missing field, when
\* a required field is absent, and yields the action of its type when all
\* required fields are present.
C13_RequiredFieldsPresent ==
  (last.op = "interpretIntent" /\ Recognized(last.intent)) =>
    LET name == ActionName(last.intent)
        missing == {k \in RequiredFields(name) : ~Present(last.intent.data, k)}
    IN  IF missing # {}
          THEN /\ last.result.kind = "error"
               /\ NamedFields(last.result.error) \cap missing # {}
          ELSE /\ last.result.kind = "action"
               /\ last.result.action.type = ActionType(name)

\* C13: a recognized intent with a null payload fails with the TypeError of
\* reading its first required field; with any other payload it fails,
\* naming a missing field, when a required field is absent or falsy (the
\* value of a metric: absent), and yields the action of its type, carrying
\* the required fields, when every required field is supplied.
C13_RequiredFieldsTruthy ==
  (last.op = "interpretIntent" /\ Recognized(last.intent)) =>
    LET name == ActionName(last.intent)
        data == last.intent.data
        missing == {k \in RequiredFields(name) : ~Supplied(data, k)}
    IN  IF data = JNull
          THEN /\ last.result.kind = "error"
               /\ last.result.error = TypeErrorMessage(FirstField(name))
        ELSE IF missing # {}
          THEN /\ last.result.kind = "error"
               /\ NamedFields(last.result.error) \cap missing # {}
          ELSE /\ last.result.kind = "action"
               /\ last.result.action.type = ActionType(name)
               /\ \A k \in RequiredFields(name) :
                    last.result.action.payload[k] = data.m[k]

\* update_task with empty data fails naming id
C13_Witness ==
  /\ last.op = "interpretIntent"
  /\ last.intent = Intent("update_task", EmptyObject)
  /\ last.result.kind = "error"
  /\ "id" \in NamedFields(last.result.error)

InEnum(v, E) == v.t = "str" /\ v.s \in E

\* C14: no action carries a priority or a status outside its enumeration;
\* a field an update does not supply stays undefined.
C14_EnumsCoerced ==
  (last.op = "interpretIntent" /\ last.result.kind = "action") =>
    LET type == last.result.action.type
        payload == last.result.action.payload
    IN  /\ type = "CREATE_TASK" =>
             /\ InEnum(payload.priority, TaskPriorities)
             /\ InEnum(payload.status, TaskStatuses)
        /\ type = "UPDATE_TASK" =>
             /\ payload.updates.priority = JUndefined
                  \/ InEnum(payload.updates.priority, TaskPriorities)
             /\ payload.updates.status = JUndefined
                  \/ InEnum(payload.updates.status, TaskStatuses)
        /\ type = "CREATE_GOAL" => InEnum(payload.status, GoalStatuses)
        /\ type = "UPDATE_GOAL" =>
             payload.updates.status = JUndefined
               \/ InEnum(payload.updates.status, GoalStatuses)

\* a recognized intent whose payload passes its handler's validation
ValidIntent(intent) ==
  /\ Recognized(intent)
  /\ intent.data # JNull
  /\ \A k \in RequiredFields(ActionName(intent)) : Supplied(intent.data, k)

\* C15: the actions returned for a list of intents are the actions of its
\* recognized, valid intents, one each, in the order of the intents; an
\* unrecognized intent yields null, without an error.
C15_OnlyFailedIntentsDropped ==
  /\ last.op = "processSystemIntents" =>
       LET valid == SelectSeq(last.intents, ValidIntent)
       IN  /\ Len(last.actions) = Len(valid)
           /\ \A i \in 1..Len(valid) :
                last.actions[i] = interpretIntent(valid[i]).action
  /\ (last.op = "interpretIntent" /\ ~Recognized(last.intent)) =>
       last.result.kind = "null"

\* a list where a valid intent follows a failing and an unrecognized one
C15_Witness ==
  /\ last.op = "processSystemIntents"
  /\ Len(last.intents) = 3
  /\ interpretIntent(last.intents[1]).kind = "error"
  /\ ~Recognized(last.intents[2])
  /\ ValidIntent(last.intents[3])
  /\ Len(last.actions) = 1

--------------------------------------------------------------------------
(* PersonalityEngine *)

MaxGenerated == 1   \* persona ids generated in one run

personasKey == <<"mentor_personas", 0>>
NoId == ""          \* a profile passed without an id

\* `persona_${Date.now()}`
GeneratedId(n) == "persona_" \o ToString(n)

Names == {"n1", "n2"}
\* the ids callers save under, and the ids they ask to delete
SaveIds == {"commander", "persona_a", NoId}
BaseIds == {"commander", "persona_a", "unknown"}
DeleteIds ==
  BuiltInIds \cup {"persona_a", "unknown"} \cup {GeneratedId(n) : n \in 1..MaxGenerated}

\* Map.prototype.has / get / set / delete on a Map kept in insertion order
MapHas(mp, id) == \E i \in 1..Len(mp) : mp[i].id = id
MapGet(mp, id) == mp[CHOOSE i \in 1..Len(mp) : mp[i].id = id]
MapSet(mp, id, p) ==
  IF MapHas(mp, id) THEN [i \in 1..Len(mp) |-> IF mp[i].id = id THEN p ELSE mp[i]]
                    ELSE Append(mp, p)
MapDelete(mp, id) == SelectSeq(mp, LAMBDA p : p.id # id)

RECURSIVE MapSetAll(_, _)
MapSetAll(mp, ps) ==
  IF ps = <<>> THEN mp ELSE MapSetAll(MapSet(mp, Head(ps).id, Head(ps)), Tail(ps))

\* loadCustomPersonas: the stored custom profiles are set on top of the Map
loadCustomPersonas(mp, st) ==
  IF HasItem(st, personasKey) THEN MapSetAll(mp, st[personasKey]) ELSE mp

\* initPersonas
initPersonas(mp, st) == loadCustomPersonas(MapSetAll(mp, BuiltInPersonas), st)

\* if (this.personas.size === 0) await this.initPersonas()
EnsureLoaded(mp, st) == IF Len(mp) = 0 THEN initPersonas(mp, st) ELSE mp

getAllPersonas(mp, st) == EnsureLoaded(mp, st)

\* getPersona without the default id: straight to the first profile
getPersona_NoDefault(mp, st, personaId) ==
  LET loaded == EnsureLoaded(mp, st)
  IN  IF MapHas(loaded, personaId) THEN MapGet(loaded, personaId) ELSE loaded[1]

getPersona(mp, st, personaId) ==
  LET loaded == EnsureLoaded(mp, st)
  IN  IF MapHas(loaded, personaId) THEN MapGet(loaded, personaId)
      ELSE IF MapHas(loaded, "commander") THEN MapGet(loaded, "commander")
      ELSE loaded[1]

\* saveCustomPersonas: the value written under personasKey
saveCustomPersonas(mp, st) ==
  SetItem(st, personasKey, SelectSeq(mp, LAMBDA p : p.isCustom))

\* savePersona(persona): the Map and the storage it leaves
savePersona(mp, st, persona, gen) ==
  LET loaded == EnsureLoaded(mp, st)
      id == IF persona.id = NoId THEN GeneratedId(gen) ELSE persona.id
      mp2 == MapSet(loaded, id, Persona(id, persona.name, TRUE))
  IN  [personas |-> mp2, storage |-> saveCustomPersonas(mp2, st)]

\* deletePersona(personaId): ok = FALSE when it throws
deletePersona(mp, st, personaId) ==
  LET loaded == EnsureLoaded(mp, st)
  IN  IF MapHas(loaded, personaId) /\ MapGet(loaded, personaId).isCustom
        THEN [ok |-> TRUE, personas |-> MapDelete(loaded, personaId),
              storage |-> saveCustomPersonas(MapDelete(loaded, personaId), st)]
        ELSE [ok |-> FALSE, personas |-> loaded, storage |-> st]

\* the custom profiles a previous session may have left in storage
StoredCustomLists == {<<>>, <<Persona("persona_a", "n1", TRUE)>>}

InitPersona ==
  /\ personas = BuiltInPersonas
  /\ customLoaded = FALSE
  /\ nextPersona = 1
  /\ calls = <<>>
  /\ ServicesIdle
  /\ \E ps \in StoredCustomLists :
       storage = IF ps = <<>> THEN <<>> ELSE SetItem(<<>>, personasKey, ps)
  /\ last = [op |-> "none"]
  /\ conversationId = NoConv
  /\ contextWindow = <<>>
  /\ nextMsg = 1
  /\ nextConv = 1
  /\ response = <<>>
  /\ xpc = "input"
  /\ parsed = NoResult
  /\ reparsed = NoResult

PersonaFrame ==
  UNCHANGED <<xvars, conversationId, contextWindow, nextMsg, nextConv, cvars,
              svars>>

\* the constructor's initPersonas() reaches the end of loadCustomPersonas
LoadCustomPersonas ==
  /\ ~customLoaded
  /\ personas' = loadCustomPersonas(personas, storage)
  /\ customLoaded' = TRUE
  /\ last' = [op |-> "loadCustomPersonas"]
  /\ UNCHANGED <<storage, nextPersona>>
  /\ PersonaFrame

SavePersona(id, name) ==
  /\ id = NoId => nextPersona <= MaxGenerated
  /\ LET r == savePersona(personas, storage, Persona(id, name, FALSE), nextPersona) IN
       /\ personas' = r.personas
       /\ storage' = r.storage
  /\ nextPersona' = IF id = NoId THEN nextPersona + 1 ELSE nextPersona
  /\ last' = [op |-> "savePersona", id |-> id, name |-> name, ok |-> TRUE]
  /\ UNCHANGED customLoaded
  /\ PersonaFrame

\* duplicatePersona(basePersonaId, newName); newName = "" takes the base name
\* with the copy suffix
DuplicatePersona(basePersonaId, newName) ==
  /\ nextPersona <= MaxGenerated
  /\ LET basePersona == getPersona(personas, storage, basePersonaId)
         newPersona == Persona(GeneratedId(nextPersona),
                               IF newName # "" THEN newName
                                               ELSE basePersona.name \o " (copy)",
                               TRUE)
         r == savePersona(personas, storage, newPersona, nextPersona)
     IN  /\ personas' = r.personas
         /\ storage' = r.storage
  /\ nextPersona' = nextPersona + 1
  /\ last' = [op |-> "duplicatePersona", id |-> basePersonaId, ok |-> TRUE]
  /\ UNCHANGED customLoaded
  /\ PersonaFrame

DeletePersona(personaId) ==
  /\ LET r == deletePersona(personas, storage, personaId) IN
       /\ personas' = r.personas
       /\ storage' = r.storage
       /\ last' = [op |-> "deletePersona", id |-> personaId, ok |-> r.ok]
  /\ UNCHANGED <<customLoaded, nextPersona>>
  /\ PersonaFrame

\* the ids callers ask for
GetIds == {"commander", "persona_a", "unknown"}

\* getPersona(personaId): the Map is (re)loaded when it is empty
GetPersona(personaId) ==
  /\ personas' = EnsureLoaded(personas, storage)
  /\ last' = [op |-> "getPersona", id |-> personaId, ok |-> TRUE,
              result |-> getPersona(personas, storage, personaId)]
  /\ UNCHANGED <<storage, customLoaded, nextPersona>>
  /\ PersonaFrame

NextPersona ==
  \/ LoadCustomPersonas
  \/ \E id \in GetIds : GetPersona(id)
  \/ \E id \in SaveIds : \E name \in Names : SavePersona(id, name)
  \/ \E id \in BaseIds : \E name \in {"n1", ""} : DuplicatePersona(id, name)
  \/ \E id \in DeleteIds : DeletePersona(id)

SpecPersona == InitPersona /\ [][NextPersona]_vars

\* The store driven over the built-in ids only: every built-in id can be
\* saved over and then deleted, which is how the Map becomes empty.
NextPersonaReset ==
  \/ LoadCustomPersonas
  \/ \E id \in {"commander", "unknown"} : GetPersona(id)
  \/ \E id \in BuiltInIds \cup {"persona_a"} : SavePersona(id, "n1")
  \/ \E id \in BuiltInIds : DeletePersona(id)

SpecPersonaReset == InitPersona /\ [][NextPersonaReset]_vars

--------------------------------------------------------------------------
(* Claims about the persona store, checked under SpecPersona *)

PersistedCustom(st) == IF HasItem(st, personasKey) THEN st[personasKey] ELSE <<>>

\* C9: whatever is saved, duplicated or deleted, every built-in id is still
\* returned by getAllPersonas.
C9_BuiltInsNeverDeleted ==
  \A b \in BuiltInIds : MapHas(getAllPersonas(personas, storage), b)

\* C10: deletePersona on a built-in id, or on an id the store does not hold,
\* fails and changes neither the collection nor the persisted list; on a
\* custom id it succeeds and removes that id, and only that id, from both.
C10_DeleteProtectsBuiltIns ==
  [][last'.op = "deletePersona" =>
       LET id == last'.id
       IN  IF id \in BuiltInIds \/ ~MapHas(personas, id)
             THEN /\ ~last'.ok
                  /\ personas' = personas
                  /\ storage' = storage
             ELSE /\ last'.ok
                  /\ ~MapHas(getAllPersonas(personas', storage'), id)
                  /\ ~MapHas(PersistedCustom(storage'), id)
                  /\ personas' = MapDelete(personas, id)]_vars

\* C11: getPersona(id) always resolves to a profile of the store: the one
\* stored under id if there is one, otherwise the one stored under the
\* default id 'commander', otherwise the first profile of the store.
C11_GetPersonaAlwaysResolves ==
  last.op = "getPersona" =>
    LET r == last.result
    IN  /\ last.ok
        /\ \E i \in 1..Len(personas) : personas[i] = r
        /\ IF MapHas(personas, last.id) THEN r.id = last.id
           ELSE IF MapHas(personas, "commander") THEN r.id = "commander"
           ELSE r = personas[1]

\* an unknown id was asked for while the default id is not in the store
C11_Witness ==
  /\ last.op = "getPersona"
  /\ ~MapHas(personas, last.id)
  /\ ~MapHas(personas, "commander")
  /\ last.result = personas[1]

AsSet(q) == {q[i] : i \in 1..Len(q)}

\* C12: savePersona(p) stores p, marked custom, under p.id (under an id no
\* profile had before when p.id is absent), replaces what was stored under
\* that id, leaves every other profile as it was, and leaves the persisted
\* list equal to the custom profiles of the store.
C12_SaveUpserts ==
  [][last'.op = "savePersona" =>
       \E i \in 1..Len(personas') :
         LET id == personas'[i].id
         IN  /\ IF last'.id = NoId THEN id # NoId /\ ~MapHas(personas, id)
                                   ELSE id = last'.id
             /\ personas'[i] = Persona(id, last'.name, TRUE)
             /\ \A j \in 1..Len(personas') :
                  j # i => /\ MapHas(personas, personas'[j].id)
                           /\ MapGet(personas, personas'[j].id) = personas'[j]
             /\ \A j \in 1..Len(personas) :
                  personas[j].id # id => MapHas(personas', personas[j].id)
             /\ AsSet(PersistedCustom(storage'))
                  = {p \in AsSet(personas') : p.isCustom}]_vars

--------------------------------------------------------------------------
(***************************************************************************)
(* UserProfileEngine (src/services/ai/personalityEngine.ts).  A profile is *)
(* a JavaScript object: a function from the names of its own properties to *)
(* their values.  Of the four nested groups that updateProfile merges with *)
(* one and the same expression, traits stands for all; id, created and     *)
(* lastUpdated are write-only time stamps and are left out.                *)
(* JSON.stringify / JSON.parse of such an object (strings, numbers, arrays *)
(* and plain objects only) gives back an equal object, and so does         *)
(* toString / parseInt of the non-negative interaction count: the stored   *)
(* values are kept as the values themselves.                               *)
(***************************************************************************)
profileKey == <<"user_profile", 0>>
interactionCountKey == <<"interaction_count", 0>>

\* { ...a, ...b }: the own properties of b overwrite those of a
Spread(a, b) ==
  [k \in (DOMAIN a) \cup (DOMAIN b) |-> IF k \in DOMAIN b THEN b[k] ELSE a[k]]

\* an object without own properties
NoFields == [k \in {} |-> 0]

Insight(date, text) == [date |-> date, text |-> text]

createDefaultProfile ==
  [name |-> "User",
   traits |-> [openness |-> 5, resilience |-> 5],
   goals |-> <<>>,
   values |-> <<>>,
   aiInsights |-> <<>>]

\* saveProfile: the storage it leaves (a null profile is not written)
saveProfile(st, cp) ==
  IF cp # NoProfile THEN SetItem(st, profileKey, cp) ELSE st

\* loadProfile: the stored profile, or a default one that is saved at once
loadProfile(st) ==
  IF HasItem(st, profileKey)
  THEN [profile |-> st[profileKey], storage |-> st]
  ELSE [profile |-> createDefaultProfile,
        storage |-> saveProfile(st, createDefaultProfile)]

\* if (!this.currentProfile) await this.loadProfile()
EnsureProfile(st, cp) ==
  IF cp = NoProfile THEN loadProfile(st) ELSE [profile |-> cp, storage |-> st]

\* profileUpdate.k is an array with at least one element
NonEmptyList(u, k) == k \in DOMAIN u /\ Len(u[k]) > 0

\* updateProfile, the merge: the profile it assigns to this.currentProfile
MergeProfile(cp, u) ==
  LET merged ==
        [Spread(cp, u) EXCEPT
           !.traits = Spread(cp.traits,
                             IF "traits" \in DOMAIN u THEN u.traits ELSE NoFields)]
      withGoals ==
        IF NonEmptyList(u, "goals")
        THEN [merged EXCEPT !.goals = u.goals] ELSE merged
      withValues ==
        IF NonEmptyList(u, "values")
        THEN [withGoals EXCEPT !.values = u.values] ELSE withGoals
  IN IF NonEmptyList(u, "aiInsights")
     THEN [withValues EXCEPT
             !.aiInsights = withValues.aiInsights \o u.aiInsights]
     ELSE withValues

\* updateProfile(profileUpdate): the profile and the storage it leaves
updateProfile(st, cp, u) ==
  LET loaded == EnsureProfile(st, cp)
      profile == MergeProfile(loaded.profile, u)
  IN [profile |-> profile, storage |-> saveProfile(loaded.storage, profile)]

\* getInteractionCount: count ? parseInt(count, 10) : 0
getInteractionCount(st) ==
  IF HasItem(st, interactionCountKey) THEN st[interactionCountKey] ELSE 0

incrementInteractionCount(st) ==
  SetItem(st, interactionCountKey, getInteractionCount(st) + 1)

MinAnalysedLength == 10
AnalysisPeriod == 10

\* what this.callOpenAI(analysisPrompt) and JSON.parse of its answer give
AnalysisThrows == [kind |-> "throws"]
AnalysisNotJson == [kind |-> "notjson"]
AnalysisNull == [kind |-> "null"]
AnalysisUpdate(u) == [kind |-> "update", update |-> u]

\* profileUpdates.aiInsights.map(insight => ({...insight, date: now}))
StampInsights(u) ==
  IF "aiInsights" \in DOMAIN u
  THEN [u EXCEPT !.aiInsights =
          [i \in 1..Len(u.aiInsights) |->
             Insight("now", u.aiInsights[i].text)]]
  ELSE u

\* updateFromInteraction(userMessage, aiResponse) when the analysis call
\* ends as `analysis` says: the profile and the storage it leaves, and
\* whether the deep analysis was started
updateFromInteraction(st, cp, userMessage, analysis) ==
  IF StrLen(userMessage) < MinAnalysedLength
  THEN [profile |-> cp, storage |-> st, analysed |-> FALSE]
  ELSE IF getInteractionCount(st) % AnalysisPeriod # 0
  THEN [profile |-> cp, storage |-> incrementInteractionCount(st),
        analysed |-> FALSE]
  ELSE CASE analysis.kind = "throws" ->
              \* outer catch: still increment the count
              [profile |-> cp, storage |-> incrementInteractionCount(st),
               analysed |-> TRUE]
         [] analysis.kind \in {"notjson", "null"} ->
              \* JSON.parse throws, or reading aiInsights of null does:
              \* the inner catch logs and the method returns
              [profile |-> cp, storage |-> st, analysed |-> TRUE]
         [] OTHER ->
              LET done == updateProfile(st, cp, StampInsights(analysis.update))
              IN [profile |-> done.profile,
                  storage |-> incrementInteractionCount(done.storage),
                  analysed |-> TRUE]

--------------------------------------------------------------------------
(***************************************************************************)
(* The profile engine, called sequentially.                                *)
(***************************************************************************)
MaxInteractions == 11
MaxUpdateKeys == 2

\* u, and u with property k set to each of vs
WithField(us, k, vs) ==
  us \cup {Spread(u, [z \in {k} |-> v]) : u \in us, v \in vs}

InsightLists ==
  {<<>>, <<Insight("then", "i1")>>,
   <<Insight("then", "i1"), Insight("then", "i2")>>}

\* the partial profiles handed to updateProfile
ProfileUpdates ==
  LET all ==
        WithField(WithField(WithField(WithField({NoFields},
          "traits", {[openness |-> 7]}),
          "goals", {<<>>, <<"g1">>}),
          "values", {<<>>, <<"v1">>}),
          "aiInsights", InsightLists)
  IN {u \in all : Cardinality(DOMAIN u) <= MaxUpdateKeys}

\* how the analysis call of updateFromInteraction can end
Analyses ==
  {AnalysisThrows, AnalysisNotJson, AnalysisNull}
    \cup {AnalysisUpdate(u) : u \in {v \in ProfileUpdates :
                                        Cardinality(DOMAIN v) <= 1}}

\* a profile saved by an earlier run of the app
StoredProfile ==
  [createDefaultProfile EXCEPT
     !.goals = <<"g0">>, !.values = <<"v0">>,
     !.aiInsights = <<Insight("then", "i0")>>]

\* the chat services, the interpreter and the persona store as constructed
ChatIdle ==
  /\ conversationId = NoConv
  /\ contextWindow = <<>>
  /\ nextMsg = 1
  /\ nextConv = 1
  /\ personas = BuiltInPersonas
  /\ customLoaded = TRUE
  /\ nextPersona = 1
  /\ calls = <<>>
  /\ response = <<>>
  /\ xpc = "input"
  /\ parsed = NoResult
  /\ reparsed = NoResult

InitProfile ==
  /\ storage \in {<<>>, SetItem(<<>>, profileKey, StoredProfile)}
  /\ currentProfile = NoProfile
  /\ last = [op |-> "none"]
  /\ ChatIdle
  /\ GoalsIdle
  /\ JournalIdle
  /\ HookIdle

ProfileFrame ==
  UNCHANGED <<conversationId, contextWindow, nextMsg, nextConv, xvars, pvars,
              cvars, nextGoal, nextEntry, hookGoals>>

\* the constructor's this.loadProfile() completes
LoadProfile ==
  /\ currentProfile = NoProfile
  /\ LET loaded == loadProfile(storage)
     IN /\ currentProfile' = loaded.profile
        /\ storage' = loaded.storage
  /\ last' = [op |-> "loadProfile"]
  /\ ProfileFrame

\* userProfileEngine.getCurrentProfile()
GetCurrentProfile ==
  /\ LET loaded == EnsureProfile(storage, currentProfile)
     IN /\ currentProfile' = loaded.profile
        /\ storage' = loaded.storage
        /\ last' = [op |-> "getCurrentProfile", profile |-> loaded.profile]
  /\ ProfileFrame

\* userProfileEngine.updateProfile(u)
UpdateProfile(u) ==
  /\ LET done == updateProfile(storage, currentProfile, u)
     IN /\ currentProfile' = done.profile
        /\ storage' = done.storage
  /\ last' = [op |-> "updateProfile", update |-> u]
  /\ ProfileFrame

\* userProfileEngine.updateFromInteraction(userMessage, aiResponse)
UpdateFromInteraction(userMessage, analysis) ==
  /\ getInteractionCount(storage) < MaxInteractions
  /\ LET done ==
           updateFromInteraction(storage, currentProfile, userMessage, analysis)
     IN /\ currentProfile' = done.profile
        /\ storage' = done.storage
        /\ last' = [op |-> "updateFromInteraction",
                    userMessage |-> userMessage, analysis |-> analysis,
                    analysed |-> done.analysed]
  /\ ProfileFrame

NextProfile ==
  \/ LoadProfile
  \/ GetCurrentProfile
  \/ \E u \in ProfileUpdates : UpdateProfile(u)
  \/ \E t \in Texts : \E a \in Analyses : UpdateFromInteraction(t, a)

SpecProfile == InitProfile /\ [][NextProfile]_vars

\* the profile an operation starts from: the one in memory, or the one the
\* first load gives
ProfileBefore == EnsureProfile(storage, currentProfile).profile

\* the update an updateProfile step has just applied (for
\* updateFromInteraction: the parsed analysis with its insights dated)
IsUpdateProfileStep ==
  \/ last'.op = "updateProfile"
  \/ /\ last'.op = "updateFromInteraction"
     /\ StrLen(last'.userMessage) >= MinAnalysedLength
     /\ getInteractionCount(storage) % AnalysisPeriod = 0
     /\ last'.analysis.kind = "update"

AppliedUpdate ==
  IF last'.op = "updateProfile" THEN last'.update
  ELSE StampInsights(last'.analysis.update)

\* C21: aiInsights is append-only under updateProfile and
\* updateFromInteraction: an update carrying a non-empty aiInsights list
\* leaves the previous list followed by the supplied insights, each once,
\* and an update without aiInsights leaves the list unchanged.
C21_InsightsAppendOnly ==
  [][IsUpdateProfileStep =>
       IF NonEmptyList(AppliedUpdate, "aiInsights")
       THEN currentProfile'.aiInsights =
              ProfileBefore.aiInsights \o AppliedUpdate.aiInsights
       ELSE "aiInsights" \notin DOMAIN AppliedUpdate =>
              currentProfile'.aiInsights = ProfileBefore.aiInsights]_vars

\* C22: every updateFromInteraction call with a message of at least 10
\* characters advances the interaction counter by exactly one, whatever
\* becomes of the analysis, so no two consecutive interactions are analysed.
C22_CounterAdvancesByOne ==
  [][(/\ last'.op = "updateFromInteraction"
      /\ StrLen(last'.userMessage) >= MinAnalysedLength)
       => getInteractionCount(storage') = getInteractionCount(storage) + 1]_vars

\* C25: updateProfile never overwrites goals or values with an empty list:
\* an update with an empty goals (values) array, or none, leaves the goals
\* (values) unchanged, and a non-empty array replaces them.
C25_EmptyListsKeepProfileLists ==
  [][IsUpdateProfileStep =>
       /\ currentProfile'.goals =
            IF NonEmptyList(AppliedUpdate, "goals")
            THEN AppliedUpdate.goals ELSE ProfileBefore.goals
       /\ currentProfile'.values =
            IF NonEmptyList(AppliedUpdate, "values")
            THEN AppliedUpdate.values ELSE ProfileBefore.values]_vars

--------------------------------------------------------------------------
(***************************************************************************)
(* GoalPlanningService (src/services/mentor/promptBuilder.ts).  The goals  *)
(* are one JSON array under 'user_goals'; every method reads the whole     *)
(* array, changes its copy and writes the whole array back.  A goal is     *)
(* kept with the fields the links are made of: id, parentId (NoGoal =      *)
(* null) and children; goal n stands for the id `goal_${Date.now()}` of    *)
(* the n-th goal created.                                                  *)
(***************************************************************************)
goalsKey == <<"user_goals", 0>>
NoGoal == 0

Goal(id, parentId, children) ==
  [id |-> id, parentId |-> parentId, children |-> children]

\* getAllGoals: goalsData ? JSON.parse(goalsData) : []
getAllGoals(st) == IF HasItem(st, goalsKey) THEN st[goalsKey] ELSE <<>>

\* goals.findIndex(goal => goal.id === id); 0 for -1
FindGoal(goals, id) ==
  IF \E i \in 1..Len(goals) : goals[i].id = id
  THEN CHOOSE i \in 1..Len(goals) :
         goals[i].id = id /\ \A j \in 1..(i - 1) : goals[j].id # id
  ELSE 0

\* addChildToParent(parentId, childId): throws when the parent is not stored
addChildToParent(st, parentId, childId) ==
  LET goals == getAllGoals(st)
      parentIndex == FindGoal(goals, parentId)
  IN IF parentIndex = 0 THEN [ok |-> FALSE, storage |-> st]
     ELSE LET children == goals[parentIndex].children
              added == IF InSeq(childId, children) THEN children
                       ELSE Append(children, childId)
          IN [ok |-> TRUE,
              storage |-> SetItem(st, goalsKey,
                            [goals EXCEPT ![parentIndex].children = added])]

\* removeChildFromParent(parentId, childId)
removeChildFromParent(st, parentId, childId) ==
  LET goals == getAllGoals(st)
      parentIndex == FindGoal(goals, parentId)
  IN IF parentIndex = 0 THEN [ok |-> FALSE, storage |-> st]
     ELSE [ok |-> TRUE,
           storage |-> SetItem(st, goalsKey,
             [goals EXCEPT ![parentIndex].children =
                SelectSeq(goals[parentIndex].children,
                          LAMBDA id : id # childId)])]

\* createGoal(goalData) with goalData.parentId and no children supplied
createGoal(st, id, parentId) ==
  LET newGoal == Goal(id, parentId, <<>>)
      linked == IF newGoal.parentId # NoGoal
                THEN addChildToParent(st, newGoal.parentId, newGoal.id)
                ELSE [ok |-> TRUE, storage |-> st]
  IN IF ~linked.ok THEN [ok |-> FALSE, storage |-> linked.storage]
     ELSE [ok |-> TRUE,
           storage |-> SetItem(linked.storage, goalsKey,
                         Append(getAllGoals(linked.storage), newGoal))]

RECURSIVE deleteGoal(_, _)
RECURSIVE deleteChildren(_, _)

\* for (const childId of goalToDelete.children) await this.deleteGoal(childId)
deleteChildren(st, children) ==
  IF children = <<>> THEN [ok |-> TRUE, storage |-> st]
  ELSE LET first == deleteGoal(st, Head(children))
       IN IF ~first.ok THEN first
          ELSE deleteChildren(first.storage, Tail(children))

\* the write that ends deleteGoal, given the array it filters
deleteGoal_Write(st, snapshot, goalId) ==
  SetItem(st, goalsKey, SelectSeq(snapshot, LAMBDA g : g.id # goalId))

\* deleteGoal(goalId): `goals` is read once, at the start
deleteGoal(st, goalId) ==
  LET goals == getAllGoals(st)
      index == FindGoal(goals, goalId)
  IN IF index = 0 THEN [ok |-> FALSE, storage |-> st]
     ELSE LET goalToDelete == goals[index]
              unlinked ==
                IF goalToDelete.parentId # NoGoal
                THEN removeChildFromParent(st, goalToDelete.parentId, goalId)
                ELSE [ok |-> TRUE, storage |-> st]
          IN IF ~unlinked.ok THEN unlinked
             ELSE LET cleared ==
                        deleteChildren(unlinked.storage, goalToDelete.children)
                  IN IF ~cleared.ok THEN cleared
                     ELSE [ok |-> TRUE,
                           storage |->
                             deleteGoal_Write(cleared.storage, goals, goalId)]

--------------------------------------------------------------------------
(***************************************************************************)
(* The goal planning service, called sequentially.                         *)
(***************************************************************************)
MaxGoals == 3

InitGoals ==
  /\ storage = <<>>
  /\ nextGoal = 1
  /\ last = [op |-> "none"]
  /\ ChatIdle
  /\ ProfileIdle
  /\ JournalIdle
  /\ HookIdle

GoalsFrame ==
  UNCHANGED <<conversationId, contextWindow, nextMsg, nextConv, xvars, pvars,
              cvars, currentProfile, nextEntry, hookGoals>>

\* goalPlanningService.createGoal({parentId})
CreateGoal(parentId) ==
  /\ nextGoal <= MaxGoals
  /\ LET done == createGoal(storage, nextGoal, parentId)
     IN /\ storage' = done.storage
        /\ nextGoal' = IF done.ok THEN nextGoal + 1 ELSE nextGoal
        /\ last' = [op |-> "createGoal", goalId |-> nextGoal,
                    parentId |-> parentId, ok |-> done.ok,
                    before |-> getAllGoals(storage)]
  /\ GoalsFrame

\* goalPlanningService.deleteGoal(goalId)
DeleteGoal(goalId) ==
  /\ LET done == deleteGoal(storage, goalId)
     IN /\ storage' = done.storage
        /\ last' = [op |-> "deleteGoal", goalId |-> goalId, ok |-> done.ok,
                    before |-> getAllGoals(storage)]
  /\ UNCHANGED nextGoal
  /\ GoalsFrame

GoalIds == 1..MaxGoals

NextGoals ==
  \/ \E p \in {NoGoal} \cup GoalIds : CreateGoal(p)
  \/ \E g \in GoalIds : DeleteGoal(g)

SpecGoals == InitGoals /\ [][NextGoals]_vars

StoredGoals == getAllGoals(storage)
StoredIds(goals) == {goals[i].id : i \in 1..Len(goals)}
GoalOf(goals, id) == goals[FindGoal(goals, id)]

\* g and the goals below it: the goals whose chain of parentId leads to g
RECURSIVE Under(_, _, _)
Under(goals, id, g) ==
  \/ id = g
  \/ /\ id \in StoredIds(goals)
     /\ GoalOf(goals, id).parentId # NoGoal
     /\ GoalOf(goals, id).parentId < id
     /\ Under(goals, GoalOf(goals, id).parentId, g)

Subtree(goals, g) == {id \in StoredIds(goals) : Under(goals, id, g)}

\* C23: after deleteGoal(g) completes, neither g nor any descendant of g is
\* stored, and the goals outside g's subtree are still stored.
C23_DeleteRemovesSubtree ==
  (last.op = "deleteGoal" /\ last.ok) =>
     StoredIds(StoredGoals) =
       StoredIds(last.before) \ Subtree(last.before, last.goalId)

\* C24: the parent/child links are consistent: c is in p.children exactly
\* when a stored goal c has parentId p, and no stored goal names a parent
\* that is not stored.
C24_LinksConsistent ==
  /\ \A p \in StoredIds(StoredGoals) : \A c \in GoalIds :
       InSeq(c, GoalOf(StoredGoals, p).children)
         <=> (c \in StoredIds(StoredGoals) /\ GoalOf(StoredGoals, c).parentId = p)
  /\ \A c \in StoredIds(StoredGoals) :
       GoalOf(StoredGoals, c).parentId # NoGoal
         => GoalOf(StoredGoals, c).parentId \in StoredIds(StoredGoals)

--------------------------------------------------------------------------
(***************************************************************************)
(* JournalService (src/unnamed/part_008).  The entries are one JSON array  *)
(* under JOURNAL_ENTRIES_KEY and the tag index is one under                *)
(* JOURNAL_TAGS_KEY.  An entry is kept with id, content, timestamp, tags   *)
(* and aiAnalysis (title, mood and relatedGoals are copied and never       *)
(* read); entry n stands for the id `journal_${Date.now()}` of the n-th    *)
(* entry created, and its timestamp is n.  The chat state the service      *)
(* reaches through aiCoreService.sendMessage is threaded as a record.      *)
(***************************************************************************)
JOURNAL_ENTRIES_KEY == <<"berserk_journal_entries", 0>>
JOURNAL_TAGS_KEY == <<"berserk_journal_tags", 0>>
JournalMemoryKey(id) == <<"journal_journal_", id>>
JournalIndexKey == <<"journal_entries", 0>>

AnalysedLength == 30
InsightEntries == 3
InsightWindow == 10

NoAnalysis == [from |-> <<"none">>]

Entry(id, content, tags) ==
  [id |-> id, content |-> content, timestamp |-> id, tags |-> tags,
   aiAnalysis |-> NoAnalysis]

\* entries.sort((a, b) => time(b) - time(a)): newest first, stable
RECURSIVE InsertByTime(_, _)
InsertByTime(e, sorted) ==
  IF sorted = <<>> THEN <<e>>
  ELSE IF Head(sorted).timestamp > e.timestamp
    THEN <<Head(sorted)>> \o InsertByTime(e, Tail(sorted))
    ELSE <<e>> \o sorted

RECURSIVE SortNewestFirst(_)
SortNewestFirst(es) ==
  IF es = <<>> THEN <<>>
  ELSE InsertByTime(Head(es), SortNewestFirst(Tail(es)))

getAllEntries(st) ==
  IF HasItem(st, JOURNAL_ENTRIES_KEY)
  THEN SortNewestFirst(st[JOURNAL_ENTRIES_KEY]) ELSE <<>>

\* Array.from(new Set(q)): the first occurrence of each element, in order
RECURSIVE Dedup(_)
Dedup(q) ==
  IF q = <<>> THEN <<>>
  ELSE LET front == Dedup(Take(q, Len(q) - 1))
       IN IF InSeq(q[Len(q)], front) THEN front ELSE Append(front, q[Len(q)])

RECURSIVE FlatTags(_)
FlatTags(es) == IF es = <<>> THEN <<>> ELSE Head(es).tags \o FlatTags(Tail(es))

getAllUniqueTags(entries) == Dedup(FlatTags(entries))

getAllTags(st) == IF HasItem(st, JOURNAL_TAGS_KEY) THEN st[JOURNAL_TAGS_KEY] ELSE <<>>

\* updateTags(newTags): the stored tags followed by the new ones
updateTags(st, newTags) ==
  SetItem(st, JOURNAL_TAGS_KEY, Dedup(getAllTags(st) \o newTags))

\* memoryEngine.saveJournalEntry(content, tags)
saveJournalEntry(st, id, content, tags) ==
  LET st1 == SetItem(st, JournalMemoryKey(id),
                     [id |-> id, content |-> content, tags |-> tags,
                      keywords |-> extractKeywords(content)])
      journalIds == IF HasItem(st1, JournalIndexKey)
                    THEN st1[JournalIndexKey] ELSE <<>>
  IN SetItem(st1, JournalIndexKey, Append(journalIds, id))

\* deleteEntry(entryId)
deleteEntry(st, entryId) ==
  LET updatedEntries ==
        SelectSeq(getAllEntries(st), LAMBDA e : e.id # entryId)
  IN updateTags(SetItem(st, JOURNAL_ENTRIES_KEY, updatedEntries),
                getAllUniqueTags(updatedEntries))

\* entries.findIndex(entry => entry.id === entryId); 0 for -1
FindEntry(entries, id) ==
  IF \E i \in 1..Len(entries) : entries[i].id = id
  THEN CHOOSE i \in 1..Len(entries) : entries[i].id = id
  ELSE 0

\* recentEntries.map(...).join('\n\n---\n\n')
RECURSIVE EntriesText(_)
EntriesText(es) ==
  IF es = <<>> THEN <<>>
  ELSE <<"entryHead">> \o Head(es).content
         \o (IF Len(es) > 1 THEN <<"entrySeparator">> ELSE <<>>)
         \o EntriesText(Tail(es))

\* the user messages the service sends to the mentor
AnalysisRequest(content) == <<"analysisLead">> \o content \o <<"analysisTail">>
ReflectionRequest(content) == <<"reflectionLead">> \o content
InsightsRequest(entries) ==
  <<"insightsLead">>
    \o EntriesText(Take(entries, Min(InsightWindow, Len(entries))))

\* the chat state: what aiCoreService.sendMessage starts from and leaves
ChatNow ==
  [st |-> storage, cid |-> conversationId, cw |-> contextWindow,
   nm |-> nextMsg, nc |-> nextConv, response |-> <<>>]

\* const response = await aiCoreService.sendMessage(userMessage)
Ask(chat, userMessage, outcome) ==
  sendMessage(chat.st, chat.cid, chat.cw, chat.nm, chat.nc, userMessage, outcome)

\* analyzeEntry's result, kept as the response text it is extracted from
AnalysisOf(asked) == [from |-> asked.response]

--------------------------------------------------------------------------
(***************************************************************************)
(* The journal service, called sequentially, next to the chat it reaches.  *)
(* Each action follows its method statement by statement.                  *)
(***************************************************************************)
MaxEntries == 3
MaxAsked == 1

ShortContent == <<"project", SP, "plan">>
LongContent ==
  <<"project", SP, "deadline", SP, "with", SP, "the", SP, "project", SP, "plan">>
Contents == {ShortContent, LongContent}
TagLists == {<<>>, <<"t1">>}
EntryUpdates == {[tags |-> <<>>], [tags |-> <<"t2">>], [content |-> LongContent]}
JournalOutcomes == {Completion(<<"project", SP, "plan">>), NetworkError}
EntryIds == 1..MaxEntries

InitJournal ==
  /\ storage = <<>>
  /\ conversationId = NoConv
  /\ contextWindow = <<>>
  /\ nextMsg = 1
  /\ nextConv = 1
  /\ nextEntry = 1
  /\ last = [op |-> "none"]
  /\ personas = BuiltInPersonas
  /\ customLoaded = TRUE
  /\ nextPersona = 1
  /\ calls = <<>>
  /\ response = <<>>
  /\ xpc = "input"
  /\ parsed = NoResult
  /\ reparsed = NoResult
  /\ ProfileIdle
  /\ GoalsIdle
  /\ HookIdle

JournalFrame ==
  UNCHANGED <<xvars, pvars, cvars, currentProfile, nextGoal, hookGoals>>

\* the chat state an operation leaves, apart from the storage
LeaveChat(chat) ==
  /\ conversationId' = chat.cid
  /\ contextWindow' = chat.cw
  /\ nextMsg' = chat.nm
  /\ nextConv' = chat.nc

\* a request may still be sent to the mentor
MayAsk == nextMsg + 1 <= 2 * MaxAsked

\* journalService.createEntry({content, tags})
CreateEntry(content, tags, outcome) ==
  /\ nextEntry <= MaxEntries
  /\ StrLen(content) > AnalysedLength => MayAsk
  /\ \E analysed \in {IF StrLen(content) > AnalysedLength
                      THEN Ask(ChatNow, AnalysisRequest(content), outcome)
                      ELSE ChatNow} :
     \E newEntry \in {[Entry(nextEntry, content, tags) EXCEPT
                         !.aiAnalysis = IF StrLen(content) > AnalysedLength
                                        THEN AnalysisOf(analysed)
                                        ELSE NoAnalysis]} :
     \E st1 \in {SetItem(analysed.st, JOURNAL_ENTRIES_KEY,
                         <<newEntry>> \o getAllEntries(analysed.st))} :
     \E st2 \in {updateTags(st1, newEntry.tags)} :
       /\ storage' = saveJournalEntry(st2, nextEntry, newEntry.content,
                                      newEntry.tags)
       /\ LeaveChat(analysed)
  /\ nextEntry' = nextEntry + 1
  /\ last' = [op |-> "createEntry", ok |-> TRUE]
  /\ JournalFrame

\* journalService.updateEntry(entryId, updates): throws when no such entry
\* is stored
UpdateEntry(entryId, updates, outcome) ==
  /\ \E entries \in {getAllEntries(storage)} :
     \E entryIndex \in {FindEntry(entries, entryId)} :
       IF entryIndex = 0
       THEN /\ UNCHANGED <<storage, conversationId, contextWindow, nextMsg,
                           nextConv>>
            /\ last' = [op |-> "updateEntry", ok |-> FALSE]
       ELSE
         \E contentChanged \in
              {/\ "content" \in DOMAIN updates
               /\ updates.content # <<>>
               /\ updates.content # entries[entryIndex].content
               /\ StrLen(updates.content) > AnalysedLength} :
         \E merged \in {Spread(entries[entryIndex], updates)} :
           /\ contentChanged => MayAsk
           /\ \E analysed \in {IF contentChanged
                               THEN Ask(ChatNow, AnalysisRequest(merged.content),
                                        outcome)
                               ELSE ChatNow} :
              \E updatedEntry \in
                   {IF contentChanged
                    THEN [merged EXCEPT !.aiAnalysis = AnalysisOf(analysed)]
                    ELSE merged} :
              \E saved \in {[entries EXCEPT ![entryIndex] = updatedEntry]} :
              \E st1 \in {SetItem(analysed.st, JOURNAL_ENTRIES_KEY, saved)} :
                /\ storage' = IF "tags" \in DOMAIN updates
                              THEN updateTags(st1, getAllUniqueTags(saved))
                              ELSE st1
                /\ LeaveChat(analysed)
           /\ last' = [op |-> "updateEntry", ok |-> TRUE]
  /\ UNCHANGED nextEntry
  /\ JournalFrame

\* journalService.deleteEntry(entryId)
DeleteEntry(entryId) ==
  /\ storage' = deleteEntry(storage, entryId)
  /\ last' = [op |-> "deleteEntry", ok |-> TRUE]
  /\ UNCHANGED <<conversationId, contextWindow, nextMsg, nextConv, nextEntry>>
  /\ JournalFrame

\* journalService.getEntryReflection(entryId): for an entry that is not
\* stored the error is caught and nothing is sent
GetEntryReflection(entryId, outcome) ==
  /\ \E entries \in {getAllEntries(storage)} :
     \E entryIndex \in {FindEntry(entries, entryId)} :
       IF entryIndex = 0
       THEN /\ UNCHANGED <<storage, conversationId, contextWindow, nextMsg,
                           nextConv>>
            /\ last' = [op |-> "getEntryReflection", ok |-> FALSE]
       ELSE /\ MayAsk
            /\ \E asked \in {Ask(ChatNow,
                                 ReflectionRequest(entries[entryIndex].content),
                                 outcome)} :
                 /\ storage' = asked.st
                 /\ LeaveChat(asked)
            /\ last' = [op |-> "getEntryReflection", ok |-> TRUE]
  /\ UNCHANGED nextEntry
  /\ JournalFrame

\* journalService.getJournalInsights(): with fewer than three entries
\* nothing is sent
GetJournalInsights(outcome) ==
  /\ \E entries \in {getAllEntries(storage)} :
       IF Len(entries) < InsightEntries
       THEN /\ UNCHANGED <<storage, conversationId, contextWindow, nextMsg,
                           nextConv>>
            /\ last' = [op |-> "getJournalInsights", ok |-> FALSE]
       ELSE /\ MayAsk
            /\ \E asked \in {Ask(ChatNow, InsightsRequest(entries), outcome)} :
                 /\ storage' = asked.st
                 /\ LeaveChat(asked)
            /\ last' = [op |-> "getJournalInsights", ok |-> TRUE]
  /\ UNCHANGED nextEntry
  /\ JournalFrame

NextJournal ==
  \/ \E c \in Contents : \E t \in TagLists : \E o \in JournalOutcomes :
       CreateEntry(c, t, o)
  \/ \E e \in EntryIds : \E u \in EntryUpdates : \E o \in JournalOutcomes :
       UpdateEntry(e, u, o)
  \/ \E e \in EntryIds : DeleteEntry(e)
  \/ \E e \in EntryIds : \E o \in JournalOutcomes : GetEntryReflection(e, o)
  \/ \E o \in JournalOutcomes : GetJournalInsights(o)

SpecJournal == InitJournal /\ [][NextJournal]_vars

\* C26: the stored tag list is the set of the tags carried by at least one
\* stored entry, after any sequence of createEntry, updateEntry and
\* deleteEntry.
C26_TagIndexTracksEntries ==
  AsSet(getAllTags(storage)) = AsSet(FlatTags(getAllEntries(storage)))

\* C30: createEntry, updateEntry, getEntryReflection and getJournalInsights
\* append no message to a conversation's stored log or to the context
\* window and create no chat MemoryItem.
C30_JournalLeavesChatUntouched ==
  [][last'.op \in {"createEntry", "updateEntry", "getEntryReflection",
                   "getJournalInsights"}
       => /\ contextWindow' = contextWindow
          /\ \A c \in 1..MaxConvs :
               getAllMessages(storage', c) = getAllMessages(storage, c)
          /\ getAllMemoryKeys(storage') = getAllMemoryKeys(storage)]_vars

--------------------------------------------------------------------------
(***************************************************************************)
(* useStrategicData (src/hooks/useStrategicData.ts).  The hook keeps the   *)
(* goal tree in the React state `goals` and under GOALS_STORAGE_KEY.  The  *)
(* functions a render hands out close over that render's `goals`: every    *)
(* statement of one call reads the same tree, whatever setGoals has been   *)
(* given in between.  A goal is kept with id, progress, parentId (NoGoal   *)
(* = undefined) and children (goal objects); progress is a number, kept    *)
(* as the fraction <<numerator, denominator>> in lowest terms so that an   *)
(* average is exact.  Goal n stands for the id Date.now().toString() of    *)
(* the n-th goal added.                                                    *)
(***************************************************************************)
GOALS_STORAGE_KEY == <<"berserk_goals", 0>>

RECURSIVE Gcd(_, _)
Gcd(a, b) == IF b = 0 THEN a ELSE Gcd(b, a % b)

\* the number n / d
Ratio(n, d) == IF n = 0 THEN <<0, 1>> ELSE <<n \div Gcd(n, d), d \div Gcd(n, d)>>

StrategicGoal(id, progress, parentId) ==
  [id |-> id, progress |-> progress, parentId |-> parentId, children |-> <<>>]

\* goalsList.find(g => g.id === id); 0 for undefined
FindInList(goalsList, id) ==
  IF \E i \in 1..Len(goalsList) : goalsList[i].id = id
  THEN CHOOSE i \in 1..Len(goalsList) :
         goalsList[i].id = id /\ \A j \in 1..(i - 1) : goalsList[j].id # id
  ELSE 0

\* getGoalById(goalId): the top-level goals, then the children of each;
\* <<>> for undefined, <<goal>> otherwise
RECURSIVE FindChild(_, _)
FindChild(gs, id) ==
  IF gs = <<>> THEN <<>>
  ELSE IF FindInList(Head(gs).children, id) # 0
    THEN <<Head(gs).children[FindInList(Head(gs).children, id)]>>
    ELSE FindChild(Tail(gs), id)

getGoalById(gs, id) ==
  IF FindInList(gs, id) # 0 THEN <<gs[FindInList(gs, id)]>>
  ELSE FindChild(gs, id)

\* updateGoalInTree(goalsList) of updateGoal(goalId, updates)
RECURSIVE updateGoalInTree(_, _, _)
updateGoalInTree(goalsList, goalId, updates) ==
  [i \in 1..Len(goalsList) |->
     IF goalsList[i].id = goalId THEN Spread(goalsList[i], updates)
     ELSE IF Len(goalsList[i].children) > 0
       THEN [goalsList[i] EXCEPT
               !.children = updateGoalInTree(goalsList[i].children, goalId, updates)]
       ELSE goalsList[i]]

\* removeGoalFromTree(goalsList) of deleteGoal(goalId)
RECURSIVE removeGoalFromTree(_, _)
removeGoalFromTree(goalsList, goalId) ==
  LET filteredGoals == SelectSeq(goalsList, LAMBDA g : g.id # goalId)
  IN [i \in 1..Len(filteredGoals) |->
        IF Len(filteredGoals[i].children) > 0
        THEN [filteredGoals[i] EXCEPT
                !.children = removeGoalFromTree(filteredGoals[i].children, goalId)]
        ELSE filteredGoals[i]]

\* addGoal({progress, parentId}): the tree it saves
addGoal(gs, id, progress, parentId) ==
  LET newGoal == StrategicGoal(id, progress, parentId)
  IN IF parentId # NoGoal
     THEN [i \in 1..Len(gs) |->
             IF gs[i].id = parentId
             THEN [gs[i] EXCEPT !.children = Append(gs[i].children, newGoal)]
             ELSE gs[i]]
     ELSE Append(gs, newGoal)

RECURSIVE SumProgress(_)
SumProgress(children) ==
  IF children = <<>> THEN 0
  ELSE Head(children).progress[1] + SumProgress(Tail(children))

\* totalProgress / parent.children.length, the children's progress being
\* whole numbers
AverageProgress(children) == Ratio(SumProgress(children), Len(children))

\* updateParentProgress(parentId) in a render whose `goals` is gs, after
\* `saved` was saved last: the tree saved last when it returns
RECURSIVE updateParentProgress(_, _, _)
updateParentProgress(gs, saved, parentId) ==
  LET parent == getGoalById(gs, parentId)
  IN IF parent = <<>> \/ Len(parent[1].children) = 0 THEN saved
     ELSE LET averageProgress == AverageProgress(parent[1].children)
              written == updateGoalInTree(gs, parentId,
                                          [progress |-> averageProgress])
          IN IF parent[1].parentId # NoGoal
             THEN updateParentProgress(gs, written, parent[1].parentId)
             ELSE written

\* updateGoalProgress(goalId, progress): the tree saved last
updateGoalProgress(gs, goalId, progress) ==
  LET written == updateGoalInTree(gs, goalId, [progress |-> progress])
      goal == getGoalById(gs, goalId)
  IN IF goal # <<>> /\ goal[1].parentId # NoGoal
     THEN updateParentProgress(gs, written, goal[1].parentId)
     ELSE written

--------------------------------------------------------------------------
(***************************************************************************)
(* The hook, each operation called on the latest render.                   *)
(***************************************************************************)
MaxStrategicGoals == 3

ProgressValues == {Ratio(0, 1), Ratio(50, 1), Ratio(100, 1)}
StrategicIds == 1..MaxStrategicGoals

InitStrategic ==
  /\ storage = <<>>
  /\ hookGoals = <<>>
  /\ nextGoal = 1
  /\ last = [op |-> "none"]
  /\ ChatIdle
  /\ ProfileIdle
  /\ JournalIdle

StrategicFrame ==
  UNCHANGED <<conversationId, contextWindow, nextMsg, nextConv, xvars, pvars,
              cvars, currentProfile, nextEntry>>

\* saveGoals(updatedGoals): setItem, then setGoals
SaveGoals(updatedGoals) ==
  /\ storage' = SetItem(storage, GOALS_STORAGE_KEY, updatedGoals)
  /\ hookGoals' = updatedGoals

\* loadData(): on mount and on refresh
LoadData ==
  /\ hookGoals' = IF HasItem(storage, GOALS_STORAGE_KEY)
                  THEN storage[GOALS_STORAGE_KEY] ELSE hookGoals
  /\ last' = [op |-> "loadData"]
  /\ UNCHANGED <<storage, nextGoal>>
  /\ StrategicFrame

\* addGoal({progress, parentId})
AddGoal(progress, parentId) ==
  /\ nextGoal <= MaxStrategicGoals
  /\ SaveGoals(addGoal(hookGoals, nextGoal, progress, parentId))
  /\ nextGoal' = nextGoal + 1
  /\ last' = [op |-> "addGoal", goalId |-> nextGoal, progress |-> progress]
  /\ StrategicFrame

\* deleteGoal(goalId)
RemoveGoal(goalId) ==
  /\ SaveGoals(removeGoalFromTree(hookGoals, goalId))
  /\ last' = [op |-> "deleteGoal", goalId |-> goalId, progress |-> Ratio(0, 1)]
  /\ UNCHANGED nextGoal
  /\ StrategicFrame

\* updateGoalProgress(goalId, progress)
UpdateGoalProgress(goalId, progress) ==
  /\ SaveGoals(updateGoalProgress(hookGoals, goalId, progress))
  /\ last' = [op |-> "updateGoalProgress", goalId |-> goalId,
              progress |-> progress]
  /\ UNCHANGED nextGoal
  /\ StrategicFrame

NextStrategic ==
  \/ LoadData
  \/ \E p \in ProgressValues : \E g \in {NoGoal} \cup StrategicIds : AddGoal(p, g)
  \/ \E g \in StrategicIds : RemoveGoal(g)
  \/ \E g \in StrategicIds : \E p \in ProgressValues : UpdateGoalProgress(g, p)

SpecStrategic == InitStrategic /\ [][NextStrategic]_vars

SavedTree ==
  IF HasItem(storage, GOALS_STORAGE_KEY) THEN storage[GOALS_STORAGE_KEY] ELSE <<>>

\* C27: after updateGoalProgress(childId, p) the saved tree holds progress p
\* for the child, and its parent's progress is the average of the progress
\* of the parent's children, p included.
C27_ParentProgressIsAverage ==
  (/\ last.op = "updateGoalProgress"
   /\ getGoalById(SavedTree, last.goalId) # <<>>
   /\ getGoalById(SavedTree, last.goalId)[1].parentId # NoGoal)
    => LET child == getGoalById(SavedTree, last.goalId)[1]
           parent == getGoalById(SavedTree, child.parentId)
       IN /\ child.progress = last.progress
          /\ parent # <<>>
               => parent[1].progress = AverageProgress(parent[1].children)

--------------------------------------------------------------------------
(***************************************************************************)
(* The AI service alone, called sequentially, from the state its           *)
(* construction finds: nothing stored, or the log of an earlier session.   *)
(***************************************************************************)
InitMirror ==
  /\ \/ /\ storage = <<>>
        /\ nextConv = 1
     \/ /\ \E n \in 0..MaxHistory :
             storage = SaveAll(SetItem(<<>>, CurrentConversationKey, 1), 1,
                               History(n))
        /\ nextConv = 2
  /\ conversationId = NoConv
  /\ contextWindow = <<>>
  /\ nextMsg = 1
  /\ last = [op |-> "none"]
  /\ personas = BuiltInPersonas
  /\ customLoaded = TRUE
  /\ nextPersona = 1
  /\ calls = <<>>
  /\ ServicesIdle
  /\ response = <<>>
  /\ xpc = "input"
  /\ parsed = NoResult
  /\ reparsed = NoResult

NextMirror ==
  \/ AIInitConversation
  \/ \E t \in Texts : \E o \in PayloadOutcomes : AISendMessage(t, o)
  \/ AIClearConversation

SpecMirror == InitMirror /\ [][NextMirror]_vars

\* C28: after every completed initConversation, sendMessage (successful or
\* failed upstream) or clearConversation of the AI service, the last 10
\* entries of the context window are getRecentMessages(conversationId, 10).
C28_WindowMirrorsLog ==
  last.op \in {"initConversation", "sendMessage", "aiClearConversation"}
    => JsSlice(contextWindow, -RecentLimit)
         = getRecentMessages(storage, conversationId, RecentLimit)

\* a failed request on a resumed conversation: the log is longer than the
\* window, and the window longer than the 10 entries compared
C28_Witness ==
  /\ last.op = "sendMessage"
  /\ ~last.ok
  /\ Len(contextWindow) > RecentLimit
  /\ Len(getAllMessages(storage, conversationId)) > Len(contextWindow)

--------------------------------------------------------------------------
(***************************************************************************)
(* The constructor's un-awaited initConversation, interleaved with one     *)
(* sendMessage and one clearConversation call issued before it finishes.   *)
(* A call runs from one await to the next without interruption.  A storage *)
(* operation takes effect when it is issued, and the continuations         *)
(* waiting for storage run in the order the operations were issued         *)
(* (calls.pending); the completion request is answered at any time.        *)
(* memoryEngine.saveMessage is one such operation here (its own steps are   *)
(* those of SaveRead .. IndexWrite above).  last keeps the messages        *)
(* pushed to the context window since clearConversation last emptied it.   *)
(***************************************************************************)
MaxStored == 2

SentText == <<"project", SP, "deadline">>

Pending(proc, pc, id, msgs) == [proc |-> proc, pc |-> pc, id |-> id, msgs |-> msgs]

StoredId(st) == IF HasItem(st, CurrentConversationKey) THEN st[CurrentConversationKey]
                ELSE NoConv

InitInterleave ==
  /\ \/ /\ storage = <<>>
        /\ nextConv = 1
     \/ /\ \E n \in 0..MaxStored :
             storage = SaveAll(SetItem(<<>>, CurrentConversationKey, 1), 1,
                               History(n))
        /\ nextConv = 2
  /\ conversationId = NoConv
  /\ contextWindow = <<>>
  /\ nextMsg = 1
  \* constructor: this.initConversation() has issued its getItem
  /\ calls = [pending |-> <<Pending("ctor", "initRead", StoredId(storage), <<>>)>>,
              request |-> FALSE,
              ctor |-> "running", send |-> "idle", clear |-> "idle"]
  /\ last = [op |-> "constructor", pushed |-> <<>>]
  /\ personas = BuiltInPersonas
  /\ customLoaded = TRUE
  /\ nextPersona = 1
  /\ ServicesIdle
  /\ response = <<>>
  /\ xpc = "input"
  /\ parsed = NoResult
  /\ reparsed = NoResult

InterleaveFrame == UNCHANGED <<xvars, pvars, svars>>

Next_(proc, pc) ==
  /\ calls.pending # <<>>
  /\ Head(calls.pending).proc = proc
  /\ Head(calls.pending).pc = pc

\* sendMessage from `const message = ...` to `await memoryEngine.saveMessage`
\* with the context window cw and the other continuations `rest`
SendBody(cw, rest) ==
  LET message == Message(nextMsg, "user", SentText)
  IN /\ contextWindow' = Append(cw, message)
     /\ storage' = saveMessage(storage, conversationId, message)
     /\ nextMsg' = nextMsg + 1
     /\ calls' = [calls EXCEPT
                    !.pending = Append(rest, Pending("send", "saved", 0, <<>>)),
                    !.send = "running"]
     /\ last' = [op |-> "sendMessage", pushed |-> Append(last.pushed, message)]

\* initConversation of `proc` has returned, leaving the context window cw
InitReturns(proc, cw) ==
  IF proc = "ctor"
  THEN /\ contextWindow' = cw
       /\ calls' = [calls EXCEPT !.pending = Tail(calls.pending),
                                 !.ctor = "done"]
       /\ last' = [last EXCEPT !.op = "initConversation"]
       /\ UNCHANGED <<storage, nextMsg>>
  ELSE SendBody(cw, Tail(calls.pending))

\* initConversation after `await AsyncStorage.getItem(...)`
InitRead(proc) ==
  /\ Next_(proc, "initRead")
  /\ LET storedId == Head(calls.pending).id
     IN IF storedId # NoConv
        THEN /\ conversationId' = storedId
             /\ calls' = [calls EXCEPT !.pending =
                            Append(Tail(calls.pending),
                                   Pending(proc, "initLoad", storedId,
                                           getRecentMessages(storage, storedId,
                                                             RecentLimit)))]
             /\ UNCHANGED <<storage, nextConv>>
        ELSE /\ nextConv <= MaxConvs + 1
             /\ conversationId' = nextConv
             /\ nextConv' = nextConv + 1
             /\ storage' = SetItem(storage, CurrentConversationKey, nextConv)
             /\ calls' = [calls EXCEPT !.pending =
                            Append(Tail(calls.pending),
                                   Pending(proc, "initPersist", nextConv, <<>>))]
  /\ last' = [last EXCEPT !.op = "initRead"]
  /\ UNCHANGED <<contextWindow, nextMsg>>
  /\ InterleaveFrame

\* this.contextWindow = await memoryEngine.getRecentMessages(storedId, 10)
InitLoad(proc) ==
  /\ Next_(proc, "initLoad")
  /\ InitReturns(proc, Head(calls.pending).msgs)
  /\ UNCHANGED <<conversationId, nextConv>>
  /\ InterleaveFrame

\* after `await AsyncStorage.setItem('current_conversation_id', ...)`
InitPersist(proc) ==
  /\ Next_(proc, "initPersist")
  /\ InitReturns(proc, contextWindow)
  /\ UNCHANGED <<conversationId, nextConv>>
  /\ InterleaveFrame

\* aiCoreService.sendMessage(SentText) is called
CallSend ==
  /\ calls.send = "idle"
  /\ calls.ctor = "running"
  /\ IF conversationId = NoConv
     THEN /\ calls' = [calls EXCEPT
                         !.pending = Append(calls.pending,
                                            Pending("send", "initRead",
                                                    StoredId(storage), <<>>)),
                         !.send = "running"]
          /\ last' = [last EXCEPT !.op = "sendMessage"]
          /\ UNCHANGED <<storage, contextWindow, nextMsg>>
     ELSE SendBody(contextWindow, calls.pending)
  /\ UNCHANGED <<conversationId, nextConv>>
  /\ InterleaveFrame

\* sendMessage after its first saveMessage: the request is sent
SendSaved ==
  /\ Next_("send", "saved")
  /\ calls' = [calls EXCEPT !.pending = Tail(calls.pending), !.request = TRUE]
  /\ last' = [last EXCEPT !.op = "request"]
  /\ UNCHANGED <<storage, conversationId, contextWindow, nextMsg, nextConv>>
  /\ InterleaveFrame

\* the completion request is answered
Respond(outcome) ==
  /\ calls.request
  /\ LET resp == callOpenAI(outcome)
         aiMessage == Message(nextMsg, "assistant",
                              parseResponse(resp.content).text)
     IN IF resp.ok
        THEN /\ contextWindow' = Append(contextWindow, aiMessage)
             /\ storage' = saveMessage(storage, conversationId, aiMessage)
             /\ nextMsg' = nextMsg + 1
             /\ calls' = [calls EXCEPT
                            !.pending = Append(calls.pending,
                                               Pending("send", "answered", 0, <<>>)),
                            !.request = FALSE]
             /\ last' = [op |-> "response",
                         pushed |-> Append(last.pushed, aiMessage)]
        ELSE /\ calls' = [calls EXCEPT !.request = FALSE, !.send = "done"]
             /\ last' = [last EXCEPT !.op = "fallback"]
             /\ UNCHANGED <<storage, contextWindow, nextMsg>>
  /\ UNCHANGED <<conversationId, nextConv>>
  /\ InterleaveFrame

\* sendMessage after its second saveMessage
SendAnswered ==
  /\ Next_("send", "answered")
  /\ calls' = [calls EXCEPT !.pending = Tail(calls.pending), !.send = "done"]
  /\ last' = [last EXCEPT !.op = "answered"]
  /\ UNCHANGED <<storage, conversationId, contextWindow, nextMsg, nextConv>>
  /\ InterleaveFrame

\* aiCoreService.clearConversation() is called
CallClear ==
  /\ calls.clear = "idle"
  /\ calls.ctor = "running"
  /\ nextConv <= MaxConvs + 1
  /\ contextWindow' = <<>>
  /\ conversationId' = nextConv
  /\ nextConv' = nextConv + 1
  /\ storage' = SetItem(storage, CurrentConversationKey, nextConv)
  /\ calls' = [calls EXCEPT
                 !.pending = Append(calls.pending,
                                    Pending("clear", "clearPersist", nextConv, <<>>)),
                 !.clear = "running"]
  /\ last' = [op |-> "clearConversation", pushed |-> <<>>]
  /\ UNCHANGED nextMsg
  /\ InterleaveFrame

\* clearConversation after its setItem: the welcome message
ClearPersist ==
  /\ Next_("clear", "clearPersist")
  /\ LET welcomeMessage == Message(nextMsg, "assistant", WelcomeText)
     IN /\ contextWindow' = Append(contextWindow, welcomeMessage)
        /\ storage' = saveMessage(storage, conversationId, welcomeMessage)
        /\ last' = [op |-> "welcome",
                    pushed |-> Append(last.pushed, welcomeMessage)]
  /\ nextMsg' = nextMsg + 1
  /\ calls' = [calls EXCEPT
                 !.pending = Append(Tail(calls.pending),
                                    Pending("clear", "clearSaved", 0, <<>>))]
  /\ UNCHANGED <<conversationId, nextConv>>
  /\ InterleaveFrame

\* clearConversation after its saveMessage
ClearSaved ==
  /\ Next_("clear", "clearSaved")
  /\ calls' = [calls EXCEPT !.pending = Tail(calls.pending), !.clear = "done"]
  /\ last' = [last EXCEPT !.op = "cleared"]
  /\ UNCHANGED <<storage, conversationId, contextWindow, nextMsg, nextConv>>
  /\ InterleaveFrame

InterleaveOutcomes == {Completion(<<"project", SP, "plan">>), NetworkError}

NextInterleave ==
  \/ \E p \in {"ctor", "send"} : InitRead(p)
  \/ \E p \in {"ctor", "send"} : InitLoad(p)
  \/ \E p \in {"ctor", "send"} : InitPersist(p)
  \/ CallSend
  \/ SendSaved
  \/ \E o \in InterleaveOutcomes : Respond(o)
  \/ SendAnswered
  \/ CallClear
  \/ ClearPersist
  \/ ClearSaved

SpecInterleave == InitInterleave /\ [][NextInterleave]_vars

\* every call that was made has completed
AllCompleted ==
  /\ calls.pending = <<>>
  /\ ~calls.request
  /\ calls.ctor = "done"
  /\ calls.send # "running"
  /\ calls.clear # "running"

\* C29: once the constructor's initConversation and the sendMessage and
\* clearConversation calls issued before it finished have all completed,
\* the in-memory conversationId is the persisted current_conversation_id,
\* the messages the calls saved are in the log of that conversation, and no
\* message pushed to the context window has been dropped from it.
C29_InterleavingsConverge ==
  AllCompleted =>
    /\ conversationId = StoredId(storage)
    /\ \A i \in 1..Len(last.pushed) :
         InSeq(last.pushed[i], getAllMessages(storage, conversationId))
    /\ \A i \in 1..Len(last.pushed) : InSeq(last.pushed[i], contextWindow)

==========================================================================
